---- MODULE Spec2Model ----
(***************************************************************************)
(* Model of the coffee-shop backend's sale transaction processor:          *)
(* the PL/pgSQL function process_sale (migration 007) running as           *)
(* concurrent READ COMMITTED transactions over the tables customers,       *)
(* products, sales and sale_items, the createSale service that calls it,   *)
(* and the catalog operations updateProduct / deleteProduct that write the *)
(* same product rows.                                                      *)
(*                                                                         *)
(* Every SQL statement is one step.  A statement reads the committed       *)
(* tables plus the writes of its own transaction; a write takes the row    *)
(* lock and waits while another open transaction holds it.  The body of    *)
(* process_sale has an EXCEPTION clause, so an error raised by a statement *)
(* undoes every write of the invocation, while a plain RETURN leaves the   *)
(* writes made so far to be committed with the calling transaction.        *)
(*                                                                         *)
(* Money is counted in cents (DECIMAL(10,2)).                              *)
(***************************************************************************)
EXTENDS Integers, Sequences, FiniteSets, TLC

\* ------------------------------------------------------------------ bounds
MaxOps   == 2      \* requests (sale or catalog) begun in one behaviour
MaxItems == 2      \* line items of one request
MaxQty   == 2      \* quantity of one line item
MaxStock == 2      \* stock value a catalog update may write

\* ------------------------------------------------------------- input sets
Txns        == {1, 2}                      \* concurrent RPC connections
CatalogIds  == {"pA", "pB"}                \* product rows of the catalog
ProductIds  == CatalogIds \cup {"pX"}      \* pX: a well-formed id with no row
Emails      == <<"a@x.com", "b@x.com">>
FirstNames  == <<"Ann", "Anne">>
LastNames   == <<"Lee">>
Prices      == {500, 325}

NULL    == 0       \* SQL NULL of an id column / variable
NoStock == 0 - 1   \* "this transaction has no pending write of the row"

ProductName == [p \in CatalogIds |-> IF p = "pA" THEN "Latte" ELSE "Mocha"]

InitProducts ==
  [p \in CatalogIds |->
     IF p = "pA" THEN [price |-> 500, stock |-> 1, is_active |-> TRUE]
                 ELSE [price |-> 325, stock |-> 2, is_active |-> TRUE]]

VARIABLES
  customers,     \* committed rows of table customers
  products,      \* committed rows of table products, by id
  sales,         \* committed rows of table sales
  sale_items,    \* committed rows of table sale_items
  pc,            \* per transaction: the statement of process_sale it is at
  req,           \* per transaction: the arguments of the RPC call
  txnow,         \* per transaction: NOW(), the transaction's start time
  v_customer_id, \* per transaction: plpgsql variable
  v_sale_id,     \* per transaction: plpgsql variable
  v_total,       \* per transaction: plpgsql variable
  idx,           \* per transaction: position of FOREACH in p_items
  pendCust,      \* per transaction: its uncommitted customers write
  pendSale,      \* per transaction: its uncommitted sales row
  pendItems,     \* per transaction: its uncommitted sale_items rows
  pendStock,     \* per transaction: its uncommitted products.stock writes
  result,        \* per transaction: what supabase.rpc handed to createSale
  reqCount,      \* sale requests begun so far
  apc,           \* catalog request: where the service function is
  areq,          \* catalog request: its arguments
  aresult,       \* catalog request: its outcome
  adminCount,    \* catalog requests begun so far
  stockEdited,   \* products whose stock a catalog update has written
  now,           \* the clock, in seconds (iat and exp of the JWTs)
  users,         \* rows of table users, by id
  issued,        \* the refresh tokens login has handed out
  lpc,           \* login in flight: where the service function is
  lreq,          \* login in flight: the user it found, the tokens it made
  authres,       \* outcome of the last auth service call
  hreq,          \* HTTP request in flight
  hchain,        \* HTTP request in flight: middleware and handler still to run
  hran,          \* HTTP request in flight: middleware and handler run so far
  hres,          \* the response sent last
  hlog,          \* the exchanges finished so far
  reg,           \* per caller of register: where it is, its email, its outcome
  regCount,      \* register calls begun so far
  storage,       \* the objects of the product-images bucket, by public URL
  image_url,     \* column image_url of table products, by product id
  img,           \* per client: a createProduct / updateProduct with an image
  imgCount       \* calls with an image begun so far

dbVars    == <<customers, products, sales, sale_items>>
txVars    == <<pc, req, txnow, v_customer_id, v_sale_id, v_total, idx,
               pendCust, pendSale, pendItems, pendStock, result, reqCount>>
adminVars == <<apc, areq, aresult, adminCount, stockEdited>>
authVars  == <<now, users, issued, lpc, lreq, authres>>
httpVars  == <<hreq, hchain, hran, hres, hlog>>
regVars   == <<reg, regCount>>
imgVars   == <<storage, image_url, img, imgCount>>
webVars   == <<authVars, httpVars, regVars, imgVars>>
vars      == <<dbVars, txVars, adminVars, webVars>>

\* ---------------------------------------------------------------- helpers
Range(s) == {s[i] : i \in DOMAIN s}

Min(S) == CHOOSE x \in S : \A y \in S : x <= y

RECURSIVE SumSet(_, _)
\* sum of f(x) over the finite set S, f given as a function on S
SumSet(S, f) ==
  IF S = {} THEN 0
  ELSE LET x == CHOOSE y \in S : TRUE IN f[x] + SumSet(S \ {x}, f)

\* ------------------------------------------------------------ row shapes
CustRow(id, f, l, e, u) ==
  [id |-> id, first_name |-> f, last_name |-> l, email |-> e, updated_at |-> u]

NoCustWrite == [op |-> "none", row |-> CustRow(NULL, "", "", "", 0)]

SaleRow(id, c, total) == [id |-> id, customer_id |-> c, total |-> total]

NoSale == SaleRow(NULL, NULL, 0)

ItemRow(s, line, p, q, price, sub) ==
  [sale_id |-> s, line |-> line, product_id |-> p, quantity |-> q,
   unit_price |-> price, subtotal |-> sub]

NoReq == [first_name |-> "", last_name |-> "", email |-> "", items |-> <<>>]

\* the quantity of a line whose product has no row is never read (line 56-61
\* returns before line 72), so one quantity stands for all of them
ItemInputs ==
  [product_id : CatalogIds, quantity : 1..MaxQty]
    \cup [product_id : ProductIds \ CatalogIds, quantity : {1}]

ItemLists == UNION {[1..n -> ItemInputs] : n \in 1..MaxItems}

\* json_build_object renders a DECIMAL(10,2) as units and two fractional digits
ToJsonNumeric(cents) == <<cents \div 100, cents % 100>>

NoNumeric == ToJsonNumeric(0)

\* what supabase.rpc returns: {data, error}
RpcResult(err, ok, msg, detail, product, avail, asked, sale, cust, total) ==
  [error |-> err, success |-> ok, message |-> msg, detail |-> detail,
   product |-> product, available |-> avail, requested |-> asked,
   sale_id |-> sale, customer_id |-> cust, total |-> total]

NoResult == RpcResult(FALSE, FALSE, "pending", "", "", 0, 0, NULL, NULL, NoNumeric)

\* line 57-60
NotFoundResult(id) ==
  RpcResult(FALSE, FALSE, "Product not found", "", id, 0, 0, NULL, NULL, NoNumeric)

\* line 65-68
InactiveResult(name) ==
  RpcResult(FALSE, FALSE, "Product is not active", "", name, 0, 0, NULL, NULL,
            NoNumeric)

\* line 73-77
InsufficientResult(name, available, requested) ==
  RpcResult(FALSE, FALSE, "Insufficient stock for product", "", name,
            available, requested, NULL, NULL, NoNumeric)

\* line 115-120
SuccessResult(sale, cust, total) ==
  RpcResult(FALSE, TRUE, "", "", "", 0, 0, sale, cust, ToJsonNumeric(total))

\* mutant: the handler ends without its RETURN, the caller gets no outcome
TransactionFailedResult_NoReturn(sqlerrm) == NoResult

\* line 124-127
TransactionFailedResult(sqlerrm) ==
  RpcResult(FALSE, FALSE, "Transaction failed", sqlerrm, "", 0, 0, NULL, NULL,
            NoNumeric)

\* the RPC itself failed: data is null, error is set
RpcErrorResult ==
  RpcResult(TRUE, FALSE, "", "", "", 0, 0, NULL, NULL, NoNumeric)

\* ------------------------------------------------------------- id supply
\* uuid_generate_v4(): an id no row, committed or pending, carries
UsedCustomerIds ==
  {c.id : c \in customers} \cup {pendCust[t].row.id : t \in Txns}

UsedSaleIds == {s.id : s \in sales} \cup {pendSale[t].id : t \in Txns}

NewId(used) == Min((1..(Cardinality(used) + 1)) \ used)

\* ------------------------------------------------------------- row locks
\* a transaction holds the lock of every row it has written and not committed
HoldsProduct(t, p) == pendStock[t][p] # NoStock

\* mutant: the UPDATE does not wait for the row lock
ProductLockedByOther_NoLock(t, p) == FALSE

ProductLockedByOther(t, p) == \E u \in Txns \ {t} : HoldsProduct(u, p)

ProductLocked(p) == \E u \in Txns : HoldsProduct(u, p)

CustomerRowLockedByOther(t, id) ==
  \E u \in Txns \ {t} : pendCust[u].op = "update" /\ pendCust[u].row.id = id

\* mutant: the INSERT does not wait for an uncommitted row with the same email
EmailInsertPendingByOther_NoWait(t, e) == FALSE

EmailInsertPendingByOther(t, e) ==
  \E u \in Txns \ {t} : pendCust[u].op = "insert" /\ pendCust[u].row.email = e

\* ------------------------------------------------------ commit / rollback
ApplyCustomerWrite(cs, w) ==
  IF w.op = "insert" THEN cs \cup {w.row}
  ELSE IF w.op = "update"
    THEN {IF c.id = w.row.id
            THEN [c EXCEPT !.first_name = w.row.first_name,
                           !.last_name  = w.row.last_name,
                           !.updated_at = w.row.updated_at]
            ELSE c : c \in cs}
  ELSE cs

ApplyStockWrites(ps, w) ==
  [p \in CatalogIds |->
     IF w[p] # NoStock THEN [ps[p] EXCEPT !.stock = w[p]] ELSE ps[p]]

NoStockWrites == [p \in CatalogIds |-> NoStock]

\* the calling transaction commits: every pending write of t becomes visible
CommitWrites(t, cust, sale, items, stock) ==
  /\ customers'  = ApplyCustomerWrite(customers, cust)
  /\ sales'      = IF sale.id = NULL THEN sales ELSE sales \cup {sale}
  /\ sale_items' = sale_items \cup Range(items)
  /\ products'   = ApplyStockWrites(products, stock)

ClearPending(t) ==
  /\ pendCust'  = [pendCust  EXCEPT ![t] = NoCustWrite]
  /\ pendSale'  = [pendSale  EXCEPT ![t] = NoSale]
  /\ pendItems' = [pendItems EXCEPT ![t] = <<>>]
  /\ pendStock' = [pendStock EXCEPT ![t] = NoStockWrites]

\* the invocation is over: its plpgsql variables are gone, its writes settled
Finish(t, res) ==
  /\ ClearPending(t)
  /\ result' = [result EXCEPT ![t] = res]
  /\ pc' = [pc EXCEPT ![t] = "done"]
  /\ v_customer_id' = [v_customer_id EXCEPT ![t] = NULL]
  /\ v_sale_id' = [v_sale_id EXCEPT ![t] = NULL]
  /\ v_total' = [v_total EXCEPT ![t] = 0]
  /\ idx' = [idx EXCEPT ![t] = 0]

\* RETURN of process_sale followed by the commit of the RPC's transaction:
\* whatever the invocation has written so far becomes visible
ReturnAndCommit(t, res) ==
  /\ CommitWrites(t, pendCust[t], pendSale[t], pendItems[t], pendStock[t])
  /\ Finish(t, res)

\* mutant: the customer upsert is outside the block the handler undoes
SurvivingCustomerWrite_Kept(w) == w

\* what the EXCEPTION block leaves of the invocation's writes: nothing
\* (line 122-123; a block with an EXCEPTION clause is a subtransaction)
SurvivingCustomerWrite(w) == NoCustWrite

\* EXCEPTION WHEN OTHERS (line 122-127): the block's writes are undone,
\* the function returns the failure object, the transaction commits nothing
RaiseException(t, sqlerrm) ==
  /\ CommitWrites(t, SurvivingCustomerWrite(pendCust[t]), NoSale, <<>>,
                  NoStockWrites)
  /\ Finish(t, TransactionFailedResult(sqlerrm))

\* ------------------------------------------------- users, tokens, requests
MaxClock   == 2    \* seconds the clock runs
MaxLogins  == 2    \* logins that hand out tokens
AccessTtl  == 1    \* JWT_EXPIRES_IN, in seconds
RefreshTtl == 2    \* JWT_REFRESH_EXPIRES_IN, in seconds
MaxHttp    == 2    \* HTTP requests on the sales routes

UserIds == {"u1", "u2"}

UserEmail == [u \in UserIds |-> IF u = "u1" THEN "ann@shop.com" ELSE "bob@shop.com"]

UserPassword == [u \in UserIds |-> IF u = "u1" THEN "pw-ann" ELSE "pw-bob"]

\* bcrypt reads at most 72 bytes of what it hashes; bytes: what it read
BcryptHash(bytes) == [bcrypt |-> bytes]

\* refresh_token_hash IS NULL
NoHash == BcryptHash(<<>>)

\* every user has registered and none has logged in (register, 115-155)
InitUsers ==
  [u \in UserIds |-> [email |-> UserEmail[u],
                      password_hash |-> BcryptHash(<<UserPassword[u]>>),
                      refresh_token_hash |-> NoHash]]

\* a JWT: the secret it is signed with, the id in its payload, iat and exp
Jwt(key, sub, iat, exp) == [key |-> key, sub |-> sub, iat |-> iat, exp |-> exp]

\* a string that is no JWT
NotAJwt == Jwt("", "", 0, 0)

NoLogin == [user |-> "", accessToken |-> NotAJwt, refreshToken |-> NotAJwt]

AuthResult(op, user, code, access, refresh) ==
  [op |-> op, user |-> user, code |-> code, accessToken |-> access,
   refreshToken |-> refresh]

NoAuthResult == AuthResult("", "", "", NotAJwt, NotAJwt)

NoBody ==
  [customer |-> [firstName |-> "", lastName |-> "", email |-> ""],
   items |-> <<>>]

\* an HTTP request: its route, its Authorization header (<<>>: none), its
\* body, the from parameter of its query string, the :id of its path
HttpRequest(route, authorization, body, from, id) ==
  [route |-> route, authorization |-> authorization, body |-> body,
   from |-> from, id |-> id]

NoHttp == HttpRequest("", <<>>, NoBody, "", NULL)

Response(status, code, message, detail, sale) ==
  [statusCode |-> status, code |-> code, message |-> message,
   detail |-> detail, saleId |-> sale]

NoResponse == Response(0, "", "", "", NULL)

\* --------------------------------------------------- register, the images
MaxRegisters == 3  \* register calls begun in one behaviour
MaxImageOps  == 2  \* createProduct / updateProduct calls with an image

Callers == {1, 2}                          \* concurrent callers of register

NewUserEmails == <<"cat@shop.com", "dan@shop.com">>

NewUserIds == <<"u3", "u4">>

\* a register call: where it is, the email of its body, what its lookup of
\* the email gave ("row", "no rows", "failed"), what it returned
Register(at, email, lookup, code) ==
  [pc |-> at, email |-> email, lookup |-> lookup, code |-> code]

NoRegister == Register("idle", "", "", "")

Clients == {1, 2}                          \* concurrent catalog clients

\* `products/${uuidv4()}.${fileExt}` (products.service 258-259), n standing
\* for the uuid and the extension
FileName(n) == <<"products", n>>

\* getPublicUrl (products.service 276-280): the public URL of the object, as
\* the segments of its path
PublicUrl(fileName) ==
  <<"storage", "v1", "object", "public", "product-images">> \o fileName

\* deleteImage (products.service 289-291): pathParts.slice(-2), the object
\* the URL is taken to name
PathOfUrl(url) == SubSeq(url, Len(url) - 1, Len(url))

NoImage == <<>>    \* image_url IS NULL / no URL in the variable

NewProductIds == <<"pC", "pD", "pE">>

\* pA has an image in the bucket, pB has none
InitStorage == {FileName(0)}

InitImageUrl ==
  [p \in CatalogIds |-> IF p = "pA" THEN PublicUrl(FileName(0)) ELSE NoImage]

\* a call with an image: the operation, where it is, the product id, the
\* imageUrl of existingProduct, the local imageUrl, the outcome
ImageCall(op, at, id, old, new, code) ==
  [op |-> op, pc |-> at, id |-> id, existing |-> old, imageUrl |-> new,
   code |-> code]

NoImageCall == ImageCall("", "idle", "", NoImage, NoImage, "")

\* ------------------------------------------------------------------- Init
Init ==
  /\ customers = {}
  /\ products = InitProducts
  /\ sales = {}
  /\ sale_items = {}
  /\ pc = [t \in Txns |-> "idle"]
  /\ req = [t \in Txns |-> NoReq]
  /\ txnow = [t \in Txns |-> 0]
  /\ v_customer_id = [t \in Txns |-> NULL]
  /\ v_sale_id = [t \in Txns |-> NULL]
  /\ v_total = [t \in Txns |-> 0]
  /\ idx = [t \in Txns |-> 0]
  /\ pendCust = [t \in Txns |-> NoCustWrite]
  /\ pendSale = [t \in Txns |-> NoSale]
  /\ pendItems = [t \in Txns |-> <<>>]
  /\ pendStock = [t \in Txns |-> NoStockWrites]
  /\ result = [t \in Txns |-> NoResult]
  /\ reqCount = 0
  /\ apc = "idle"
  /\ areq = [id |-> "", price |-> 0, stock |-> 0 - 1]
  /\ aresult = "none"
  /\ adminCount = 0
  /\ stockEdited = {}
  /\ now = 0
  /\ users = InitUsers
  /\ issued = {}
  /\ lpc = "idle"
  /\ lreq = NoLogin
  /\ authres = NoAuthResult
  /\ hreq = NoHttp
  /\ hchain = <<>>
  /\ hran = <<>>
  /\ hres = NoResponse
  /\ hlog = <<>>
  /\ reg = [c \in Callers |-> NoRegister]
  /\ regCount = 0
  /\ storage = InitStorage
  /\ image_url = InitImageUrl
  /\ img = [c \in Clients |-> NoImageCall]
  /\ imgCount = 0

\* ------------------------------------------------- process_sale, by statement
InFlight(t) == pc[t] \notin {"idle", "done"}

\* connections are interchangeable: a new request takes the first free one
FirstFree(t) ==
  /\ ~InFlight(t)
  /\ \A u \in Txns : (~InFlight(u)) => (t = u \/ t < u)

\* The code only compares emails and names, never looks into them, so the
\* values are interchangeable: a request carries a value the tables or the
\* running requests already hold, or the first of the values none of them holds.
FirstUnused(seq, seen) ==
  LET free == {i \in DOMAIN seq : seq[i] \notin seen} IN
    IF free = {} THEN {} ELSE {seq[Min(free)]}

Choices(seq, seen) == (Range(seq) \cap seen) \cup FirstUnused(seq, seen)

SeenEmails == {c.email : c \in customers} \cup {req[t].email : t \in Txns}

SeenFirstNames ==
  {c.first_name : c \in customers} \cup {req[t].first_name : t \in Txns}

SeenLastNames ==
  {c.last_name : c \in customers} \cup {req[t].last_name : t \in Txns}

\* createSale calls supabase.rpc('process_sale', ...) (sales.service.ts 85-96)
BeginSale(t) ==
  /\ FirstFree(t)
  /\ reqCount + adminCount < MaxOps
  /\ \E e \in Choices(Emails, SeenEmails),
        f \in Choices(FirstNames, SeenFirstNames),
        l \in Choices(LastNames, SeenLastNames), its \in ItemLists :
       req' = [req EXCEPT ![t] = [first_name |-> f, last_name |-> l,
                                  email |-> e, items |-> its]]
  /\ reqCount' = reqCount + 1
  /\ txnow' = [txnow EXCEPT ![t] = reqCount + adminCount + 1]
  /\ pc' = [pc EXCEPT ![t] = "select_customer"]
  /\ result' = [result EXCEPT ![t] = NoResult]
  /\ UNCHANGED <<dbVars, v_customer_id, v_sale_id, v_total, idx, pendCust,
                 pendSale, pendItems, pendStock, adminVars, webVars>>

\* line 30-32: SELECT id INTO v_customer_id FROM customers WHERE email = ...
SelectCustomer(t) ==
  /\ pc[t] = "select_customer"
  /\ LET found == {c \in customers : c.email = req[t].email} IN
       v_customer_id' = [v_customer_id EXCEPT ![t] =
                           IF found = {} THEN NULL
                           ELSE (CHOOSE c \in found : TRUE).id]
  /\ pc' = [pc EXCEPT ![t] = "upsert_customer"]
  /\ UNCHANGED <<dbVars, req, txnow, v_sale_id, v_total, idx, pendCust,
                 pendSale, pendItems, pendStock, result, reqCount, adminVars, webVars>>

\* mutant: no UNIQUE constraint on customers.email
EmailTaken_NoConstraint(e) == FALSE

\* customers.email is UNIQUE (customers table, line 94)
EmailTaken(e) == \E c \in customers : c.email = e

\* line 34-45: INSERT INTO customers ... or UPDATE customers SET ...
UpsertCustomer(t) ==
  /\ pc[t] = "upsert_customer"
  /\ IF v_customer_id[t] = NULL
       THEN \* INSERT waits for an uncommitted row with the same unique email
            /\ ~EmailInsertPendingByOther(t, req[t].email)
            /\ IF EmailTaken(req[t].email)
                 THEN RaiseException(t, "unique_violation")
                 ELSE LET id == NewId(UsedCustomerIds) IN
                      /\ pendCust' = [pendCust EXCEPT ![t] =
                           [op |-> "insert",
                            row |-> CustRow(id, req[t].first_name,
                                            req[t].last_name, req[t].email,
                                            txnow[t])]]
                      /\ v_customer_id' = [v_customer_id EXCEPT ![t] = id]
                      /\ pc' = [pc EXCEPT ![t] = "validate"]
                      /\ idx' = [idx EXCEPT ![t] = 1]
                      /\ UNCHANGED <<dbVars, v_sale_id, v_total, pendSale,
                                     pendItems, pendStock, result>>
       ELSE \* UPDATE waits for the row lock
            /\ ~CustomerRowLockedByOther(t, v_customer_id[t])
            /\ pendCust' = [pendCust EXCEPT ![t] =
                 [op |-> "update",
                  row |-> CustRow(v_customer_id[t], req[t].first_name,
                                  req[t].last_name, req[t].email, txnow[t])]]
            /\ pc' = [pc EXCEPT ![t] = "validate"]
            /\ idx' = [idx EXCEPT ![t] = 1]
            /\ UNCHANGED <<dbVars, v_customer_id, v_sale_id, v_total, pendSale,
                           pendItems, pendStock, result>>
  /\ UNCHANGED <<req, txnow, reqCount, adminVars, webVars>>

\* mutant: off by one, the last unit cannot be sold
StockTooLow_OrEqual(stock, quantity) == stock <= quantity

\* line 72: IF v_product.stock < v_item.quantity
StockTooLow(stock, quantity) == stock < quantity

\* mutant: the stock is compared before is_active is looked at
CheckItem_StockFirst(item) ==
  LET p == item.product_id IN
    IF p \notin CatalogIds THEN NotFoundResult(p)
    ELSE IF StockTooLow(products[p].stock, item.quantity)
      THEN InsufficientResult(ProductName[p], products[p].stock, item.quantity)
    ELSE IF ~products[p].is_active THEN InactiveResult(ProductName[p])
    ELSE NoResult

\* line 56-78: the three checks of one line item, in the order of the code;
\* the result to RETURN, or NoResult when the line passes
CheckItem(item) ==
  LET p == item.product_id IN
    IF p \notin CatalogIds THEN NotFoundResult(p)
    ELSE IF ~products[p].is_active THEN InactiveResult(ProductName[p])
    ELSE IF StockTooLow(products[p].stock, item.quantity)
      THEN InsufficientResult(ProductName[p], products[p].stock, item.quantity)
    ELSE NoResult

\* line 48-79: one iteration of the validation loop
ValidateItem(t) ==
  /\ pc[t] = "validate"
  /\ LET res == CheckItem(req[t].items[idx[t]]) IN
       IF res # NoResult
         THEN ReturnAndCommit(t, res)
         ELSE /\ IF idx[t] < Len(req[t].items)
                   THEN /\ idx' = [idx EXCEPT ![t] = idx[t] + 1]
                        /\ pc' = pc
                   ELSE /\ idx' = [idx EXCEPT ![t] = 0]
                        /\ pc' = [pc EXCEPT ![t] = "create_sale"]
              /\ UNCHANGED <<dbVars, v_customer_id, v_sale_id, v_total,
                             pendCust, pendSale, pendItems, pendStock, result>>
  /\ UNCHANGED <<req, txnow, reqCount, adminVars, webVars>>

\* mutant: the INSERT is committed on its own, outside the transaction
CreateSaleRow_Autocommit(t) ==
  /\ pc[t] = "create_sale"
  /\ LET id == NewId(UsedSaleIds) IN
       /\ sales' = sales \cup {SaleRow(id, v_customer_id[t], 0)}
       /\ v_sale_id' = [v_sale_id EXCEPT ![t] = id]
  /\ idx' = [idx EXCEPT ![t] = 1]
  /\ pc' = [pc EXCEPT ![t] = "insert_item"]
  /\ UNCHANGED <<customers, products, sale_items, req, txnow, v_customer_id,
                 v_total, pendCust, pendSale, pendItems, pendStock, result,
                 reqCount, adminVars, webVars>>

\* line 82-84: INSERT INTO sales (customer_id, total) VALUES (v_customer_id, 0)
CreateSaleRow(t) ==
  /\ pc[t] = "create_sale"
  /\ LET id == NewId(UsedSaleIds) IN
       /\ pendSale' = [pendSale EXCEPT ![t] = SaleRow(id, v_customer_id[t], 0)]
       /\ v_sale_id' = [v_sale_id EXCEPT ![t] = id]
  /\ idx' = [idx EXCEPT ![t] = 1]
  /\ pc' = [pc EXCEPT ![t] = "insert_item"]
  /\ UNCHANGED <<dbVars, req, txnow, v_customer_id, v_total, pendCust,
                 pendItems, pendStock, result, reqCount, adminVars, webVars>>

\* mutant: the subtotal ignores the quantity
Subtotal_UnitOnly(price, quantity) == price

\* line 95: v_subtotal := v_product.price * v_item.quantity
Subtotal(price, quantity) == price * quantity

\* line 90-100: SELECT price, compute the subtotal, INSERT INTO sale_items
InsertItem(t) ==
  /\ pc[t] = "insert_item"
  /\ LET item  == req[t].items[idx[t]]
         price == products[item.product_id].price
         sub   == Subtotal(price, item.quantity)
     IN
       /\ v_total' = [v_total EXCEPT ![t] = v_total[t] + sub]
       /\ pendItems' = [pendItems EXCEPT ![t] =
            Append(pendItems[t],
                   ItemRow(v_sale_id[t], idx[t], item.product_id,
                           item.quantity, price, sub))]
  /\ pc' = [pc EXCEPT ![t] = "update_stock"]
  /\ UNCHANGED <<dbVars, req, txnow, v_customer_id, v_sale_id, idx, pendCust,
                 pendSale, pendStock, result, reqCount, adminVars, webVars>>

\* mutant: the CHECK constraint is missing
StockCheckOk_Missing(stock) == TRUE

\* products.stock CHECK (stock >= 0) (migration 006 line 48)
StockCheckOk(stock) == stock >= 0

\* mutant: one unit leaves the stock whatever the quantity
DecrementedStock_ByOne(stock, quantity) == stock - 1

\* line 104: SET stock = stock - v_item.quantity
DecrementedStock(stock, quantity) == stock - quantity

\* mutant: the UPDATE does not see the transaction's own earlier decrement
UpdateStock_OwnWriteUnseen(t) ==
  /\ pc[t] = "update_stock"
  /\ LET item == req[t].items[idx[t]]
         p    == item.product_id
         new  == DecrementedStock(products[p].stock, item.quantity)
     IN
       /\ ~ProductLockedByOther(t, p)
       /\ IF ~StockCheckOk(new)
            THEN RaiseException(t, "check_violation")
            ELSE /\ pendStock' = [pendStock EXCEPT ![t][p] = new]
                 /\ IF idx[t] < Len(req[t].items)
                      THEN /\ idx' = [idx EXCEPT ![t] = idx[t] + 1]
                           /\ pc' = [pc EXCEPT ![t] = "insert_item"]
                      ELSE /\ idx' = [idx EXCEPT ![t] = 0]
                           /\ pc' = [pc EXCEPT ![t] = "update_total"]
                 /\ UNCHANGED <<dbVars, v_customer_id, v_sale_id, v_total,
                                pendCust, pendSale, pendItems, result>>
  /\ UNCHANGED <<req, txnow, reqCount, adminVars, webVars>>

\* line 103-106: UPDATE products SET stock = stock - v_item.quantity
\* (the UPDATE reads the row as last committed, or as this transaction left it)
UpdateStock(t) ==
  /\ pc[t] = "update_stock"
  /\ LET item == req[t].items[idx[t]]
         p    == item.product_id
         cur  == IF HoldsProduct(t, p) THEN pendStock[t][p]
                                       ELSE products[p].stock
         new  == DecrementedStock(cur, item.quantity)
     IN
       /\ ~ProductLockedByOther(t, p)
       /\ IF ~StockCheckOk(new)
            THEN RaiseException(t, "check_violation")
            ELSE /\ pendStock' = [pendStock EXCEPT ![t][p] = new]
                 /\ IF idx[t] < Len(req[t].items)
                      THEN /\ idx' = [idx EXCEPT ![t] = idx[t] + 1]
                           /\ pc' = [pc EXCEPT ![t] = "insert_item"]
                      ELSE /\ idx' = [idx EXCEPT ![t] = 0]
                           /\ pc' = [pc EXCEPT ![t] = "update_total"]
                 /\ UNCHANGED <<dbVars, v_customer_id, v_sale_id, v_total,
                                pendCust, pendSale, pendItems, result>>
  /\ UNCHANGED <<req, txnow, reqCount, adminVars, webVars>>

\* line 110-120: UPDATE sales SET total = v_total; RETURN success; commit
FinalizeSale(t) ==
  /\ pc[t] = "update_total"
  /\ CommitWrites(t, pendCust[t],
                  [pendSale[t] EXCEPT !.total = v_total[t]],
                  pendItems[t], pendStock[t])
  /\ Finish(t, SuccessResult(v_sale_id[t], v_customer_id[t], v_total[t]))
  /\ UNCHANGED <<req, txnow, reqCount, adminVars, webVars>>

\* ------------------------------------------------------- lock waits, failures
\* the transactions whose locks t's next statement waits for
WaitsFor(t) ==
  IF pc[t] = "update_stock"
    THEN {u \in Txns \ {t} : HoldsProduct(u, req[t].items[idx[t]].product_id)}
  ELSE IF pc[t] = "upsert_customer" /\ v_customer_id[t] = NULL
    THEN {u \in Txns \ {t} : pendCust[u].op = "insert"
                             /\ pendCust[u].row.email = req[t].email}
  ELSE IF pc[t] = "upsert_customer"
    THEN {u \in Txns \ {t} : pendCust[u].op = "update"
                             /\ pendCust[u].row.id = v_customer_id[t]}
  ELSE {}

RECURSIVE WaitClosure(_, _)
WaitClosure(S, n) ==
  IF n = 0 THEN S
  ELSE WaitClosure(S \cup UNION {WaitsFor(u) : u \in S}, n - 1)

\* t waits, directly or through others, for a lock that waits for t
Deadlocked(t) == t \in WaitClosure(WaitsFor(t), Cardinality(Txns))

\* the deadlock detector cancels the statement of a transaction on the cycle;
\* deadlock_detected is caught by WHEN OTHERS (line 122-127)
DeadlockDetected(t) ==
  /\ Deadlocked(t)
  /\ RaiseException(t, "deadlock_detected")
  /\ UNCHANGED <<req, txnow, reqCount, adminVars, webVars>>

\* the store fails under a running invocation: either a statement raises an
\* error that WHEN OTHERS catches (line 122-127), or the call itself fails and
\* supabase.rpc returns {error} (sales.service.ts 98), the transaction aborted
StoreError(t) ==
  /\ InFlight(t)
  /\ \/ RaiseException(t, "internal_error")
     \/ /\ CommitWrites(t, NoCustWrite, NoSale, <<>>, NoStockWrites)
        /\ Finish(t, RpcErrorResult)
  /\ UNCHANGED <<req, txnow, reqCount, adminVars, webVars>>

\* -------------------------------------------------------- catalog operations
NoAdminReq == [id |-> "", price |-> 0, stock |-> NoStock]

\* mutant: getProductById without .eq('is_active', true)
ProductVisible_AnyRow(id) == id \in CatalogIds

\* getProductById (products.service 118-131): the row, only if it is active
ProductVisible(id) == id \in CatalogIds /\ products[id].is_active

\* updateProduct (products.service 179-198): getProductById, then the UPDATE
\* is sent as a second request; price 0 / stock NoStock: field not in the body
UpdateProductCheck ==
  /\ apc = "idle"
  /\ reqCount + adminCount < MaxOps
  /\ adminCount' = adminCount + 1
  /\ \E id \in ProductIds, price \in Prices \cup {0},
        stock \in (0..MaxStock) \cup {NoStock} :
       IF ProductVisible(id)
         THEN /\ areq' = [id |-> id, price |-> price, stock |-> stock]
              /\ apc' = "update_write"
              /\ aresult' = "none"
         ELSE /\ aresult' = "NOT_FOUND"
              /\ UNCHANGED <<apc, areq>>
  /\ UNCHANGED <<dbVars, txVars, webVars, stockEdited>>

\* the row after .update(updateData).eq('id', id) (products.service 201-216)
UpdatedProduct(row, r) ==
  [row EXCEPT !.price = IF r.price = 0 THEN @ ELSE r.price,
              !.stock = IF r.stock = NoStock THEN @ ELSE r.stock]

\* mutant: the new price is pushed into the product's sale_items
UpdateProductWrite_Reprice ==
  /\ apc = "update_write"
  /\ ~ProductLocked(areq.id)
  /\ products' = [products EXCEPT ![areq.id] = UpdatedProduct(@, areq)]
  /\ sale_items' = {IF i.product_id = areq.id /\ areq.price # 0
                      THEN [i EXCEPT !.unit_price = areq.price]
                      ELSE i : i \in sale_items}
  /\ stockEdited' = IF areq.stock = NoStock THEN stockEdited
                    ELSE stockEdited \cup {areq.id}
  /\ apc' = "idle"
  /\ areq' = NoAdminReq
  /\ aresult' = "ok"
  /\ UNCHANGED <<customers, sales, txVars, webVars, adminCount>>

UpdateProductWrite ==
  /\ apc = "update_write"
  /\ ~ProductLocked(areq.id)
  /\ products' = [products EXCEPT ![areq.id] = UpdatedProduct(@, areq)]
  /\ stockEdited' = IF areq.stock = NoStock THEN stockEdited
                    ELSE stockEdited \cup {areq.id}
  /\ apc' = "idle"
  /\ areq' = NoAdminReq
  /\ aresult' = "ok"
  /\ UNCHANGED <<customers, sales, sale_items, txVars, webVars, adminCount>>

\* deleteProduct (products.service 237-239): getProductById first
DeleteProductCheck ==
  /\ apc = "idle"
  /\ reqCount + adminCount < MaxOps
  /\ adminCount' = adminCount + 1
  /\ \E id \in ProductIds :
       IF ProductVisible(id)
         THEN /\ areq' = [NoAdminReq EXCEPT !.id = id]
              /\ apc' = "delete_write"
              /\ aresult' = "none"
         ELSE /\ aresult' = "NOT_FOUND"
              /\ UNCHANGED <<apc, areq>>
  /\ UNCHANGED <<dbVars, txVars, webVars, stockEdited>>

\* the row after .update({is_active: false}) (products.service 242-245)
SoftDeleted(row) == [row EXCEPT !.is_active = FALSE]

\* mutant: deleteProduct removes the row (DELETE FROM products WHERE id = ...)
DeleteProductWrite_HardDelete ==
  /\ apc = "delete_write"
  /\ ~ProductLocked(areq.id)
  /\ products' = [p \in DOMAIN products \ {areq.id} |-> products[p]]
  /\ apc' = "idle"
  /\ areq' = NoAdminReq
  /\ aresult' = "ok"
  /\ UNCHANGED <<customers, sales, sale_items, txVars, webVars, adminCount,
                 stockEdited>>

\* products.service 242-250: the UPDATE, then the function returns
DeleteProductWrite ==
  /\ apc = "delete_write"
  /\ ~ProductLocked(areq.id)
  /\ products' = [products EXCEPT ![areq.id] = SoftDeleted(@)]
  /\ apc' = "idle"
  /\ areq' = NoAdminReq
  /\ aresult' = "ok"
  /\ UNCHANGED <<customers, sales, sale_items, txVars, webVars, adminCount,
                 stockEdited>>

\* ------------------------------------------------------------ specification
Next ==
  \/ \E t \in Txns : BeginSale(t)
  \/ \E t \in Txns : SelectCustomer(t)
  \/ \E t \in Txns : UpsertCustomer(t)
  \/ \E t \in Txns : ValidateItem(t)
  \/ \E t \in Txns : CreateSaleRow(t)
  \/ \E t \in Txns : InsertItem(t)
  \/ \E t \in Txns : UpdateStock(t)
  \/ \E t \in Txns : FinalizeSale(t)
  \/ \E t \in Txns : DeadlockDetected(t)
  \/ \E t \in Txns : StoreError(t)
  \/ UpdateProductCheck
  \/ UpdateProductWrite
  \/ DeleteProductCheck
  \/ DeleteProductWrite

Spec == Init /\ [][Next]_vars

\* ------------------------------------------------- createSale, the service
\* parseFloat(result.total) (sales.service.ts 115), in cents
ParseFloat(n) == n[1] * 100 + n[2]

\* what createSale returns or throws for an RPC result (sales.service.ts 98-116)
CreateSaleOutcome(res) ==
  IF res.error
    THEN [ok |-> FALSE, statusCode |-> 500, code |-> "INTERNAL_ERROR",
          message |-> "Failed to process sale", detail |-> "",
          saleId |-> NULL, customerId |-> NULL, total |-> 0]
  ELSE IF ~res.success
    THEN [ok |-> FALSE, statusCode |-> 400, code |-> "BAD_REQUEST",
          message |-> res.message, detail |-> res.detail,
          saleId |-> NULL, customerId |-> NULL, total |-> 0]
  ELSE [ok |-> TRUE, statusCode |-> 201, code |-> "", message |-> "",
        detail |-> "", saleId |-> res.sale_id, customerId |-> res.customer_id,
        total |-> ParseFloat(res.total)]

\* ------------------------------------------------------- shared vocabulary
ValidationMessages ==
  {"Product not found", "Product is not active", "Insufficient stock for product"}

Done(t) == pc[t] = "done"

Committed(t) == Done(t) /\ result[t].success

\* t ended because the store failed under it, not because of what it asked
Faulted(t) == result[t].error \/ result[t].detail = "internal_error"

ItemsOf(items, s) == {i \in items : i.sale_id = s}

SoldQty(items, p) ==
  LET rows == {i \in items : i.product_id = p} IN
    SumSet(rows, [i \in rows |-> i.quantity])

SubtotalSum(items, s) ==
  LET rows == ItemsOf(items, s) IN SumSet(rows, [i \in rows |-> i.subtotal])

\* t takes the step that ends its validation loop with a rejection
RejectsInValidation(t) ==
  /\ pc[t] = "validate"
  /\ pc'[t] = "done"
  /\ result'[t].message \in ValidationMessages

\* ------------------------------------------------------------------ claims

\* C1: a request rejected during validation leaves the committed state as it
\* was before the request: no customer row inserted or renamed, no sale, no
\* sale_item, no stock change.  (Stated as claimed; the code commits the
\* customer upsert of step 1 on the early RETURN.)
C1_RejectedRequestLeavesNoTrace ==
  [][\A t \in Txns : RejectsInValidation(t) => dbVars' = dbVars]_vars

\* C2: committed stock is never negative, under any interleaving of sales
C2_StockNeverNegative == \A p \in CatalogIds : products[p].stock >= 0

\* C2 witness: two sales passed the check on the same stock, one lost the race
C2_Witness ==
  \E t \in Txns, u \in Txns :
    /\ Committed(u) /\ Done(t)
    /\ result[t] = TransactionFailedResult("check_violation")
    /\ \E p \in CatalogIds : products[p].stock = 0

\* the two requests are single lines on the same product p with stock N,
\* q1 <= N, q2 <= N, q1 + q2 > N, and nothing else has run
RacePair ==
  /\ reqCount = 2 /\ adminCount = 0
  /\ \A t \in Txns : Done(t) /\ ~Faulted(t) /\ Len(req[t].items) = 1
  /\ \E p \in CatalogIds :
       /\ \A t \in Txns : req[t].items[1].product_id = p
                          /\ req[t].items[1].quantity <= InitProducts[p].stock
       /\ req[1].items[1].quantity + req[2].items[1].quantity
            > InitProducts[p].stock

\* C3: of two concurrent requests that each fit the stock but not together,
\* exactly one commits and the other is rejected
C3_ExactlyOneCommits ==
  RacePair =>
    /\ Cardinality({t \in Txns : result[t].success}) = 1
    /\ \A t \in Txns :
         ~result[t].success =>
           result[t].message \in {"Insufficient stock for product",
                                  "Transaction failed"}

\* C3 witness: the loser passed validation and failed on the decrement
C3_Witness ==
  /\ RacePair
  /\ \E t \in Txns : result[t] = TransactionFailedResult("check_violation")

\* C4: without a catalog stock edit, stock = initial stock - quantities of the
\* committed sale_items of the product
C4_StockConservation ==
  \A p \in CatalogIds \ stockEdited :
    products[p].stock = InitProducts[p].stock - SoldQty(sale_items, p)

\* C4 witness: one request committed two units, another was rolled back
C4_Witness ==
  /\ \E p \in CatalogIds : SoldQty(sale_items, p) = 2
  /\ \E t \in Txns : Done(t) /\ result[t].message = "Transaction failed"

\* C5: subtotal = quantity * unit_price, sale.total = sum of its own
\* subtotals, and the total createSale returns is the stored total
C5_TotalsExact ==
  /\ \A i \in sale_items : i.subtotal = i.quantity * i.unit_price
  /\ \A s \in sales : s.total = SubtotalSum(sale_items, s.id)
  /\ \A t \in Txns :
       Committed(t) =>
         \E s \in sales : /\ s.id = CreateSaleOutcome(result[t]).saleId
                          /\ s.total = CreateSaleOutcome(result[t]).total

\* C5 witness: a committed sale of two different lines, returned to the caller
C5_Witness ==
  \E t \in Txns :
    /\ Committed(t)
    /\ Cardinality(ItemsOf(sale_items, result[t].sale_id)) = 2
    /\ CreateSaleOutcome(result[t]).total = 500 + 2 * 325

\* t takes the step in which a statement raises and WHEN OTHERS handles it
RaisesException(t) ==
  /\ InFlight(t)
  /\ pc'[t] = "done"
  /\ result'[t].message = "Transaction failed"

NothingPending(t) ==
  /\ pendCust[t] = NoCustWrite
  /\ pendSale[t] = NoSale
  /\ pendItems[t] = <<>>
  /\ pendStock[t] = NoStockWrites

\* C6: an error raised after the invocation has started writing leaves none of
\* its writes: the committed tables do not change in that step, nothing of
\* the invocation stays pending to be committed later, and it reports failure
C6_ExceptionUndoesEverything ==
  [][\A t \in Txns :
       (RaisesException(t) /\ pendCust[t] # NoCustWrite) =>
         /\ dbVars' = dbVars
         /\ NothingPending(t)'
         /\ ~result'[t].success
         /\ ~CreateSaleOutcome(result'[t]).ok]_vars

\* C6 witness: a request that had inserted its customer, created a sale and
\* decremented stock failed on a later decrement, and no row of it is there
C6_Witness ==
  \E t \in Txns :
    /\ Done(t)
    /\ result[t] = TransactionFailedResult("check_violation")
    /\ Len(req[t].items) = 2
    /\ ~EmailTaken(req[t].email)
    /\ sales = {} /\ sale_items = {}
    /\ products = InitProducts

\* the committed state shows whole sales only
WholeSales ==
  /\ \A s \in sales :
       LET rows == ItemsOf(sale_items, s.id) IN
         /\ rows # {}
         /\ {i.line : i \in rows} = 1..Cardinality(rows)
         /\ s.total = SubtotalSum(sale_items, s.id)
         /\ s.total # 0
  /\ \A i \in sale_items : \E s \in sales : s.id = i.sale_id
  /\ \A s1 \in sales, s2 \in sales : s1.id = s2.id => s1 = s2
  /\ \A t \in Txns :
       Committed(t) =>
         LET rows == ItemsOf(sale_items, result[t].sale_id) IN
           /\ Cardinality(rows) = Len(req[t].items)
           /\ \A i \in rows :
                /\ i.product_id = req[t].items[i.line].product_id
                /\ i.quantity = req[t].items[i.line].quantity

\* a sale row, its sale_items and their stock decrements appear in one step
AppearTogether ==
  /\ \A i \in sale_items' \ sale_items :
       \E s \in sales' \ sales : s.id = i.sale_id
  /\ \A s \in sales' \ sales : ItemsOf(sale_items, s.id) = {}
  /\ (sale_items' # sale_items \/ sales' # sales) =>
       \A p \in CatalogIds :
         products'[p].stock =
           products[p].stock - SoldQty(sale_items' \ sale_items, p)

\* C7: outside a transaction a sale is visible only whole: with one sale_item
\* per requested line (at least one), its final non-provisional total, and
\* the stock decrement of every one of its sale_items; no sale_item without
\* its sale
C7_NoPartialSaleVisible == [][WholeSales' /\ AppearTogether]_vars

\* C7 witness: a two-line sale is visible while another transaction is between
\* creating its own sale row and committing
C7_Witness ==
  \E t \in Txns, u \in Txns :
    /\ Committed(t)
    /\ Cardinality(ItemsOf(sale_items, result[t].sale_id)) = 2
    /\ pc[u] = "update_stock"
    /\ pendSale[u].total = 0 /\ pendSale[u].id # NULL

\* t writes a line: its unit_price is the product's price at that statement
WritesLineAtCurrentPrice(t) ==
  (pc[t] = "insert_item" /\ pc'[t] = "update_stock") =>
    LET row == pendItems'[t][Len(pendItems'[t])] IN
      /\ pendItems'[t] = Append(pendItems[t], row)
      /\ row.unit_price = products[req[t].items[idx[t]].product_id].price
      /\ row.subtotal = row.quantity * row.unit_price

\* C8: a committed sale and its sale_items never change afterwards, whatever
\* runs later (price update, soft delete, other sales); a line keeps the
\* price read when it was written, from that statement through the commit
C8_CommittedSaleImmutable ==
  [][/\ \A s \in sales : s \in sales'
     /\ \A i \in sale_items : i \in sale_items'
     /\ \A i \in sale_items' \ sale_items :
          /\ \A j \in sale_items : ~(j.sale_id = i.sale_id /\ j.line = i.line)
          /\ \E t \in Txns : i \in Range(pendItems[t])
     /\ \A t \in Txns :
          /\ WritesLineAtCurrentPrice(t)
          /\ (pc[t] = "update_stock" /\ InFlight(t)') =>
               pendItems'[t] = pendItems[t]]_vars

\* C8 witness: the product of a committed line now has another price
C8_Witness ==
  \E i \in sale_items :
    /\ products[i.product_id].price # i.unit_price
    /\ aresult = "ok"
    /\ \E s \in sales : s.id = i.sale_id /\ s.total = i.subtotal

UniqueEmail ==
  \A c1 \in customers, c2 \in customers : c1.email = c2.email => c1 = c2

\* t takes the step that commits its sale
CommitsSale(t) == pc[t] = "update_total" /\ pc'[t] = "done" /\ result'[t].success

\* C9: never two customer rows with one email; when a purchase commits, the
\* one row of its email carries the names of that request, and its id is the
\* customerId returned and the customer_id of the new sale
C9_OneCustomerPerEmail ==
  [][/\ UniqueEmail'
     /\ \A t \in Txns :
          CommitsSale(t) =>
            \E c \in customers' :
              /\ c.email = req[t].email
              /\ c.first_name = req[t].first_name
              /\ c.last_name = req[t].last_name
              /\ CreateSaleOutcome(result'[t]).customerId = c.id
              /\ \E s \in sales' \ sales :
                   s.id = result'[t].sale_id /\ s.customer_id = c.id]_vars

\* C9 witness: two committed purchases under one email with different names,
\* one customer row, named as the second to commit
C9_Witness ==
  /\ Committed(1) /\ Committed(2)
  /\ req[1].email = req[2].email
  /\ req[1].first_name # req[2].first_name
  /\ result[1].customer_id = result[2].customer_id
  /\ Cardinality(customers) = 1
  /\ Cardinality(sales) = 2
  /\ \E c \in customers : c.updated_at = 2 /\ c.first_name = req[2].first_name

\* the line names no product row, an inactive product, or more than the stock
LineOffends(item) ==
  \/ item.product_id \notin CatalogIds
  \/ ~products[item.product_id].is_active
  \/ item.quantity > products[item.product_id].stock

\* the rejection names what the claim says it names
RejectionNames(res, item) ==
  LET p == item.product_id IN
    IF p \notin CatalogIds
      THEN res.message = "Product not found" /\ res.product = p
    ELSE IF ~products[p].is_active
      THEN res.message = "Product is not active" /\ res.product = ProductName[p]
    ELSE /\ res.message = "Insufficient stock for product"
         /\ res.product = ProductName[p]
         /\ res.available = products[p].stock
         /\ res.requested = item.quantity

\* t executes one iteration of the validation loop (and the store holds)
ValidatesLine(t) ==
  /\ pc[t] = "validate"
  /\ <<pc[t], idx[t]>>' # <<pc[t], idx[t]>>
  /\ ~Faulted(t)'

\* C10: a line that names an absent or inactive product or asks more than the
\* current stock makes process_sale reject the request with the matching
\* reason, with no sale, no sale_item and no stock change; a request goes on
\* to create its sale only after every one of its lines passed
C10_RejectsOffendingLine ==
  [][\A t \in Txns :
       /\ ValidatesLine(t) =>
            LET item == req[t].items[idx[t]] IN
              IF LineOffends(item)
                THEN /\ pc'[t] = "done"
                     /\ ~result'[t].success
                     /\ RejectionNames(result'[t], item)
                     /\ <<sales, sale_items, products>>'
                          = <<sales, sale_items, products>>
                     /\ NothingPending(t)'
                ELSE /\ result'[t] = NoResult
                     /\ IF idx[t] < Len(req[t].items)
                          THEN pc'[t] = "validate" /\ idx'[t] = idx[t] + 1
                          ELSE pc'[t] = "create_sale"
       /\ (pc[t] # "create_sale" /\ pc'[t] = "create_sale") =>
            pc[t] = "validate"
       /\ (pc[t] # "validate" /\ pc'[t] = "validate") => idx'[t] = 1]_vars

\* C10 witness: rejected for stock on the second line, available 1, requested 2
C10_Witness ==
  \E t \in Txns :
    /\ Done(t)
    /\ result[t] = InsufficientResult("Latte", 1, 2)
    /\ Len(req[t].items) = 2
    /\ req[t].items[2] = [product_id |-> "pA", quantity |-> 2]
    /\ sales = {} /\ sale_items = {} /\ products = InitProducts

\* ------------------------------------------ the response for a failed sale
\* errorMiddleware, AppError branch (error.middleware.ts 17-28): status, code
\* and message of the error go to the caller as they are
ErrorMiddleware(err) ==
  [statusCode |-> err.statusCode, code |-> err.code, message |-> err.message,
   detail |-> err.detail]

\* POST /api/sales answers a failed createSale through next(error)
\* (sales controller 26-28)
SaleFailureResponse(res) == ErrorMiddleware(CreateSaleOutcome(res))

\* the request was turned away by the validation loop (line 57, 65, 73)
ValidationRejection(res) == res.message \in ValidationMessages

\* the request failed inside the transaction or the call itself failed
ProcessingFailure(res) == res.error \/ res.message = "Transaction failed"

\* C11: a validation rejection (product not found, inactive, insufficient
\* stock) and a processing failure inside the transaction never surface from
\* createSale with the same status or error code.  (Stated as claimed; the
\* code maps every success = false result to BAD_REQUEST / 400.)
C11_FailureKindsDistinguishable ==
  \A t, u \in Txns :
    (/\ Done(t) /\ Done(u)
     /\ ValidationRejection(result[t])
     /\ ProcessingFailure(result[u]))
      => /\ CreateSaleOutcome(result[t]).code # CreateSaleOutcome(result[u]).code
         /\ CreateSaleOutcome(result[t]).statusCode
              # CreateSaleOutcome(result[u]).statusCode

\* the outcome of a transaction whose decrement broke CHECK (stock >= 0) or
\* that the deadlock detector chose
LostStockRace(res) == res.detail \in {"check_violation", "deadlock_detected"}

ProductsOf(r) == {r.items[i].product_id : i \in DOMAIN r.items}

\* t lost to another sale: every request was a sale, t lists no product twice,
\* and the other sale lists a product t lists
RaceLoser(t) ==
  /\ adminCount = 0
  /\ Done(t) /\ LostStockRace(result[t])
  /\ Cardinality(ProductsOf(req[t])) = Len(req[t].items)
  /\ \E u \in Txns \ {t} :
       pc[u] # "idle" /\ ProductsOf(req[u]) \cap ProductsOf(req[t]) # {}

\* C12: the transaction that loses a race on a product's stock is wholly
\* aborted and createSale reports it as an internal failure (INTERNAL_ERROR /
\* 500), not as a bad-request rejection.  (Stated as claimed; the code reports
\* the loser as BAD_REQUEST / 400.)
C12_RaceLoserIsInternalFailure ==
  \A t \in Txns :
    RaceLoser(t)
      => /\ CreateSaleOutcome(result[t]).code = "INTERNAL_ERROR"
         /\ CreateSaleOutcome(result[t]).statusCode = 500

\* C17: the response for a failure inside the sale transaction (store error,
\* constraint violation, conflict) carries no diagnostic detail of the store:
\* its message is the same for every such failure and does not depend on the
\* database's error text.  (Stated as claimed; the code puts SQLERRM into the
\* message it answers with.)
C17_NoStoreDetailInResponse ==
  \A t \in Txns :
    (Done(t) /\ ProcessingFailure(result[t]))
      => /\ SaleFailureResponse(result[t]).detail = ""
         /\ SaleFailureResponse(result[t]).message
              = SaleFailureResponse(RpcErrorResult).message

\* the quantity of product p that request r asks for, over all its lines
RequestedQty(r, p) ==
  LET lines == {i \in DOMAIN r.items : r.items[i].product_id = p} IN
    SumSet(lines, [i \in lines |-> r.items[i].quantity])

\* updateProduct has read the row and not yet sent its UPDATE with a stock
\* value, and sale t, begun after that read, has committed a decrement of
\* the same product
SaleCommittedDuringUpdate(t) ==
  /\ apc = "update_write" /\ areq.stock # NoStock
  /\ Committed(t)
  /\ txnow[t] = reqCount + adminCount
  /\ areq.id \in ProductsOf(req[t])

\* C16: no catalog operation writes a stock value decided before, and outside,
\* the transaction that writes it: the decrement of a sale committed while
\* updateProduct runs is still in the stock after updateProduct's write (the
\* write is refused, or the value it was given is lowered by the decrement).
\* (Stated as claimed; the code writes the request's absolute value.)
C16_DecrementNeverOverwritten ==
  [][\A t \in Txns :
       (SaleCommittedDuringUpdate(t) /\ apc' = "idle") =>
         products'[areq.id].stock
           \in {products[areq.id].stock,
                areq.stock - RequestedQty(req[t], areq.id)}]_vars

\* C18: no API operation removes a product row (deleteProduct only sets
\* is_active to false), so every sale_item references an existing product row
C18_ProductRowsStay ==
  [][/\ \A p \in DOMAIN products : p \in DOMAIN products'
     /\ \A i \in sale_items' : i.product_id \in DOMAIN products']_vars

\* C18 witness: a product with a committed sale_item has been soft-deleted
C18_Witness ==
  /\ aresult = "ok"
  /\ \E i \in sale_items :
       /\ i.product_id \in DOMAIN products
       /\ ~products[i.product_id].is_active

\* ------------------------------------------------- scheduling of the store
\* the next statement of invocation t
SaleStep(t) ==
  \/ SelectCustomer(t)
  \/ UpsertCustomer(t)
  \/ ValidateItem(t)
  \/ CreateSaleRow(t)
  \/ InsertItem(t)
  \/ UpdateStock(t)
  \/ FinalizeSale(t)

\* The store runs the next statement of every invocation whose locks are free,
\* and its deadlock detector cancels a statement that waits in a cycle
\* (after deadlock_timeout).  Store failures and new requests are not obliged.
Fairness ==
  \A t \in Txns : WF_vars(SaleStep(t)) /\ WF_vars(DeadlockDetected(t))

SpecFair == Spec /\ Fairness

\* the one outcome an ended invocation has: success, or a rejection
TerminalOutcome(res) ==
  \/ res.success /\ ~res.error /\ res.sale_id # NULL
  \/ ~res.success /\ (ValidationRejection(res) \/ ProcessingFailure(res))

\* C14: every process_sale invocation eventually reaches exactly one terminal
\* outcome, committed success or rejection, under any interleaving with other
\* invocations (lock waits and wait cycles included): no invocation stays in
\* flight from some point on, an ended one has one outcome, which then stays,
\* and an invocation starts only for a request of a caller, never as a retry
C14_EveryInvocationTerminates ==
  /\ \A t \in Txns : []<>(~InFlight(t))
  /\ [][\A t \in Txns :
          /\ Done(t)' => TerminalOutcome(result[t])'
          /\ (Done(t) /\ reqCount' = reqCount) =>
               (Done(t)' /\ result'[t] = result[t])
          /\ (~InFlight(t) /\ InFlight(t)') => reqCount' = reqCount + 1]_vars

\* C14 witness: two sales listed the same two products in opposite order and
\* waited on each other's row lock; one was cancelled, the other committed
C14_Witness ==
  /\ \A t \in Txns : Done(t) /\ Len(req[t].items) = 2
  /\ req[1].items[1].product_id = req[2].items[2].product_id
  /\ req[1].items[2].product_id = req[2].items[1].product_id
  /\ req[1].items[1].product_id # req[1].items[2].product_id
  /\ \E t \in Txns : result[t] = TransactionFailedResult("deadlock_detected")
  /\ \E t \in Txns : Committed(t)

\* ------------------------------------------------- AppError (AppError.ts)
AppError(status, code, message) ==
  [ok |-> FALSE, statusCode |-> status, code |-> code, message |-> message,
   detail |-> "", saleId |-> NULL, customerId |-> NULL, total |-> 0]

Unauthorized(message) == AppError(401, "UNAUTHORIZED", message)

NotFound(message) == AppError(404, "NOT_FOUND", message)

ValidationError(message) == AppError(422, "VALIDATION_ERROR", message)

\* --------------------------------------- createSaleSchema (sales.schema)
MaxItemsPerSale    == 50
MaxQuantityPerItem == 100
MinNameLength      == 2
MaxNameLength      == 50
MaxBodyItems       == 2     \* items of a request body, the long lists aside

\* the JSON values a quantity field may hold; a number is held in tenths
JsonNumber(tenths) == [type |-> "number", tenths |-> tenths, chars |-> <<>>]

JsonString(chars) == [type |-> "string", tenths |-> 0, chars |-> chars]

JsonTrue == [type |-> "boolean", tenths |-> 0, chars |-> <<"true">>]

JsonNull == [type |-> "null", tenths |-> 0, chars |-> <<>>]

Digits == <<"0", "1", "2", "3", "4", "5", "6", "7", "8", "9">>

DigitValue(c) == (CHOOSE i \in DOMAIN Digits : Digits[i] = c) - 1

RECURSIVE DecimalValue(_)
DecimalValue(chars) ==
  IF chars = <<>> THEN 0
  ELSE DecimalValue(SubSeq(chars, 1, Len(chars) - 1)) * 10
         + DigitValue(chars[Len(chars)])

NaN == [nan |-> TRUE, tenths |-> 0]

Finite(tenths) == [nan |-> FALSE, tenths |-> tenths]

\* z.coerce.number() is Number(input): a number as it is, a string of digits
\* as its value, "" and null as 0, true as 1, any other string as NaN
CoerceNumber(j) ==
  CASE j.type = "number"  -> Finite(j.tenths)
    [] j.type = "string"  ->
         IF \A i \in DOMAIN j.chars : j.chars[i] \in Range(Digits)
           THEN Finite(DecimalValue(j.chars) * 10)
           ELSE NaN
    [] j.type = "boolean" -> IF j.chars = <<"true">> THEN Finite(10) ELSE Finite(0)
    [] OTHER              -> Finite(0)

Issue(broken, message) == IF broken THEN {message} ELSE {}

\* mutant: the schema does not ask for a positive quantity
QuantityIssues_AnySign(n) ==
  IF n.nan THEN {"Expected number, received nan"}
  ELSE Issue(n.tenths % 10 # 0, "Quantity must be an integer")
       \cup Issue(n.tenths > MaxQuantityPerItem * 10,
                  "Quantity cannot exceed 100 per item")

\* .int().positive().max(100) on the coerced number (line 8-12)
QuantityIssues(n) ==
  IF n.nan THEN {"Expected number, received nan"}
  ELSE Issue(n.tenths % 10 # 0, "Quantity must be an integer")
       \cup Issue(n.tenths <= 0, "Quantity must be positive")
       \cup Issue(n.tenths > MaxQuantityPerItem * 10,
                  "Quantity cannot exceed 100 per item")

\* z.string().uuid(): the ids of the model are written as UUIDs, no other
\* string is
IsUuid(s) == s \in ProductIds

\* saleItemSchema (line 6-13)
SaleItemIssues(item) ==
  Issue(~IsUuid(item.productId), "Invalid product ID")
    \cup QuantityIssues(CoerceNumber(item.quantity))

LongName == "Maximilian-Alexander-Bartholomew-Christopherson-III"

\* the length of the strings the requests carry
StringLength(s) ==
  CASE s = "A" -> 1
    [] s = "Ann" -> 3
    [] s = "Lee" -> 3
    [] s = "Anne" -> 4
    [] s = LongName -> 51
    [] OTHER -> 0

NameIssues(s, field) ==
  Issue(StringLength(s) < MinNameLength, <<field, "too short">>)
    \cup Issue(StringLength(s) > MaxNameLength, <<field, "too long">>)

\* z.string().email(): the addresses of the model are well-formed, no other
\* string is
IsEmail(s) == s \in Range(Emails)

\* createSaleSchema (line 18-34): every issue of the body
CreateSaleIssues(body) ==
  NameIssues(body.customer.firstName, "firstName")
    \cup NameIssues(body.customer.lastName, "lastName")
    \cup Issue(~IsEmail(body.customer.email), <<"email", "Invalid email format">>)
    \cup Issue(Len(body.items) < 1, <<"items", "At least one item is required">>)
    \cup Issue(Len(body.items) > MaxItemsPerSale,
               <<"items", "Cannot exceed 50 items per sale">>)
    \cup UNION {{<<"items", m>> : m \in SaleItemIssues(body.items[i])} :
                 i \in DOMAIN body.items}

\* schema.parse's value: the body with every quantity coerced to a number
ParsedBody(body) ==
  [body EXCEPT !.items =
     [i \in DOMAIN body.items |->
        [body.items[i] EXCEPT
           !.quantity = JsonNumber(CoerceNumber(body.items[i].quantity).tenths)]]]

\* the arguments createSale hands to process_sale (sales.service.ts 85-96);
\* (v_item->>'quantity')::INTEGER reads the whole number
RpcArguments(body) ==
  [first_name |-> body.customer.firstName,
   last_name |-> body.customer.lastName,
   email |-> body.customer.email,
   items |-> [i \in DOMAIN body.items |->
                [product_id |-> body.items[i].productId,
                 quantity |-> body.items[i].quantity.tenths \div 10]]]

\* querySalesSchema, from (line 50-53): z.string().datetime().optional()
IsDatetime(s) == s = "2024-01-01T00:00:00Z"

QueryIssues(from) == Issue(from # "" /\ ~IsDatetime(from), "Invalid datetime")

\* ------------------------------------------------------------ authenticate
\* jwt.verify(token, secret): the signature is of this secret and the token
\* has not expired
JwtVerify(token, secret) == token.key = secret /\ now < token.exp

CallNext == [AppError(0, "", "") EXCEPT !.ok = TRUE]

\* authenticate (auth middleware, line 59-104): the error it hands to next,
\* or none.  The header is the text before the credentials, then the
\* credentials: startsWith('Bearer ') reads the first, substring(7) the rest
AuthenticateOutcome(authorization) ==
  IF authorization = <<>>
    THEN Unauthorized("No authorization token provided")
  ELSE IF authorization[1] # "Bearer "
    THEN Unauthorized("Invalid authorization format. Use: Bearer <token>")
  ELSE IF Len(authorization) < 2
    THEN Unauthorized("No token provided")
  ELSE IF ~JwtVerify(authorization[2], "JWT_SECRET")
    THEN Unauthorized("Invalid or expired token")
  ELSE CallNext

\* ---------------------------------------------------- the sales routes
PostSales   == "POST /api/sales"
GetSalesAll == "GET /api/sales"
GetSalesOne == "GET /api/sales/:id"

\* mutant: the GET routes are mounted without authenticate
RouteChain_Open(route) ==
  CASE route = PostSales   -> <<"validate(createSaleSchema)", "createSale">>
    [] route = GetSalesAll -> <<"validate(querySalesSchema)", "getSales">>
    [] route = GetSalesOne -> <<"getSaleById">>

\* sales.routes.ts 17-44: the middleware of each route, then its handler
RouteChain(route) ==
  CASE route = PostSales   -> <<"validate(createSaleSchema)", "createSale">>
    [] route = GetSalesAll ->
         <<"authenticate", "validate(querySalesSchema)", "getSales">>
    [] route = GetSalesOne -> <<"authenticate", "getSaleById">>

\* ---------------------------------------------------- requests that arrive
HeaderTokens ==
  {Jwt("JWT_SECRET", "u1", now, now + AccessTtl),
   Jwt("JWT_SECRET", "u1", now - AccessTtl, now),
   Jwt("JWT_REFRESH_SECRET", "u1", now, now + RefreshTtl),
   Jwt("some other secret", "u1", now, now + AccessTtl),
   NotAJwt}

Headers ==
  {<<>>, <<"Bearer ">>,
   <<"Basic ", Jwt("JWT_SECRET", "u1", now, now + AccessTtl)>>,
   <<"bearer ", Jwt("JWT_SECRET", "u1", now, now + AccessTtl)>>}
    \cup {<<"Bearer ", t>> : t \in HeaderTokens}

GoodQuantities == {JsonNumber(10), JsonString(<<"2">>)}

BadQuantities ==
  {JsonNumber(0), JsonNumber(0 - 10), JsonNumber(15),
   JsonNumber(MaxQuantityPerItem * 10 + 10), JsonString(<<"a", "b", "c">>),
   JsonString(<<>>), JsonNull}

SaleItem(p, q) == [productId |-> p, quantity |-> q]

GoodItems ==
  {SaleItem(p, q) : p \in ProductIds, q \in GoodQuantities}
    \cup {SaleItem("pA", JsonNumber(MaxQuantityPerItem * 10)),
          SaleItem("pB", JsonTrue)}

BadItems ==
  {SaleItem("not-a-uuid", JsonNumber(10))}
    \cup {SaleItem("pB", q) : q \in BadQuantities}

\* lists of up to MaxBodyItems items of which at most one is bad, the empty
\* list, and lists of MaxItemsPerSale and MaxItemsPerSale + 1 equal items
ItemBodies ==
  {l \in UNION {[1..n -> GoodItems \cup BadItems] : n \in 1..MaxBodyItems} :
     Cardinality({i \in DOMAIN l : l[i] \in BadItems}) <= 1}
    \cup {[i \in 1..n |-> SaleItem("pB", JsonNumber(10))] :
            n \in {MaxItemsPerSale, MaxItemsPerSale + 1}}
    \cup {<<>>}

GoodCustomer == [firstName |-> "Ann", lastName |-> "Lee", email |-> "a@x.com"]

BadCustomers ==
  {[GoodCustomer EXCEPT !.firstName = "A"],
   [GoodCustomer EXCEPT !.lastName = LongName],
   [GoodCustomer EXCEPT !.email = "ann.at.x.com"]}

SaleBodies ==
  [customer : {GoodCustomer}, items : ItemBodies]
    \cup [customer : BadCustomers,
          items : {<<>>, <<SaleItem("pB", JsonNumber(10))>>}]

HttpRequests ==
  {HttpRequest(PostSales, h, b, "", NULL) :
     h \in {<<>>, <<"Bearer ", NotAJwt>>}, b \in SaleBodies}
    \cup {HttpRequest(GetSalesAll, h, NoBody, f, NULL) :
            h \in Headers, f \in {"", "2024-01-01T00:00:00Z", "yesterday"}}
    \cup {HttpRequest(GetSalesOne, h, NoBody, "", id) :
            h \in Headers, id \in 1..MaxHttp}

\* ------------------------------------------- the sales routes, step by step
\* what errorMiddleware answers for an error handed to next
ErrorResponse(err) ==
  LET e == ErrorMiddleware(err) IN
    Response(e.statusCode, e.code, e.message, e.detail, NULL)

Exchange(route, input, ran, res) ==
  [route |-> route, input |-> input, ran |-> ran, res |-> res]

\* res.json(...) or errorMiddleware: the request is over
SendResponse(res, input, ran) ==
  /\ hres' = res
  /\ hlog' = Append(hlog, Exchange(hreq.route, input, ran, res))
  /\ hreq' = NoHttp
  /\ hchain' = <<>>
  /\ hran' = <<>>

\* next(): the chain goes on
PassOn(name) ==
  /\ hchain' = Tail(hchain)
  /\ hran' = Append(hran, name)
  /\ UNCHANGED <<hres, hlog>>

AtStage(name) == hchain # <<>> /\ Head(hchain) = name

\* a request arrives and the router picks its route
ReceiveRequest ==
  /\ hchain = <<>>
  /\ Len(hlog) < MaxHttp
  /\ \E r \in HttpRequests :
       /\ hreq' = r
       /\ hchain' = RouteChain(r.route)
  /\ hran' = <<>>
  /\ UNCHANGED <<dbVars, txVars, adminVars, authVars, regVars, imgVars, hres, hlog>>

\* authenticate (auth middleware, line 59-104)
Authenticate ==
  /\ AtStage("authenticate")
  /\ LET out == AuthenticateOutcome(hreq.authorization) IN
       IF out.ok
         THEN PassOn("authenticate") /\ UNCHANGED hreq
         ELSE SendResponse(ErrorResponse(out), NoReq,
                           Append(hran, "authenticate"))
  /\ UNCHANGED <<dbVars, txVars, adminVars, authVars, regVars, imgVars>>

\* validate(createSaleSchema) (validate.middleware.ts 29-60): req.body
\* becomes the parsed body, or next gets AppError.validation
ValidateBody ==
  /\ AtStage("validate(createSaleSchema)")
  /\ IF CreateSaleIssues(hreq.body) = {}
       THEN /\ hreq' = [hreq EXCEPT !.body = ParsedBody(@)]
            /\ PassOn("validate(createSaleSchema)")
       ELSE SendResponse(
              ErrorResponse(ValidationError("Validation failed for body")),
              NoReq, Append(hran, "validate(createSaleSchema)"))
  /\ UNCHANGED <<dbVars, txVars, adminVars, authVars, regVars, imgVars>>

\* validate(querySalesSchema, 'query')
ValidateQuery ==
  /\ AtStage("validate(querySalesSchema)")
  /\ IF QueryIssues(hreq.from) = {}
       THEN PassOn("validate(querySalesSchema)") /\ UNCHANGED hreq
       ELSE SendResponse(
              ErrorResponse(ValidationError("Validation failed for query")),
              NoReq, Append(hran, "validate(querySalesSchema)"))
  /\ UNCHANGED <<dbVars, txVars, adminVars, authVars, regVars, imgVars>>

\* mutant: createSale answers a request equal to one it has served with the
\* sale it made then
CreateSaleController_Idempotent(t) ==
  /\ AtStage("createSale") /\ "createSale" \notin Range(hran)
  /\ FirstFree(t)
  /\ LET args == RpcArguments(hreq.body)
         same == {i \in DOMAIN hlog : /\ hlog[i].input = args
                                      /\ hlog[i].res.statusCode = 201}
     IN IF same # {}
          THEN /\ SendResponse(hlog[Min(same)].res, args,
                               Append(hran, "createSale"))
               /\ UNCHANGED <<txVars>>
          ELSE /\ req' = [req EXCEPT ![t] = args]
               /\ reqCount' = reqCount + 1
               /\ txnow' = [txnow EXCEPT ![t] = reqCount + adminCount + 1]
               /\ pc' = [pc EXCEPT ![t] = "select_customer"]
               /\ result' = [result EXCEPT ![t] = NoResult]
               /\ hran' = Append(hran, "createSale")
               /\ UNCHANGED <<v_customer_id, v_sale_id, v_total, idx,
                              pendCust, pendSale, pendItems, pendStock,
                              hreq, hchain, hres, hlog>>
  /\ UNCHANGED <<dbVars, adminVars, authVars, regVars, imgVars>>

\* the createSale controller calls the service, which calls the RPC
\* (sales controller 15-18, sales.service.ts 85-96)
CreateSaleController(t) ==
  /\ AtStage("createSale") /\ "createSale" \notin Range(hran)
  /\ FirstFree(t)
  /\ req' = [req EXCEPT ![t] = RpcArguments(hreq.body)]
  /\ reqCount' = reqCount + 1
  /\ txnow' = [txnow EXCEPT ![t] = reqCount + adminCount + 1]
  /\ pc' = [pc EXCEPT ![t] = "select_customer"]
  /\ result' = [result EXCEPT ![t] = NoResult]
  /\ hran' = Append(hran, "createSale")
  /\ UNCHANGED <<dbVars, v_customer_id, v_sale_id, v_total, idx, pendCust,
                 pendSale, pendItems, pendStock, adminVars, authVars, regVars, imgVars, hreq,
                 hchain, hres, hlog>>

\* the RPC has returned: 201 with the sale, or the error createSale throws
\* goes to errorMiddleware (sales controller 20-28)
CreateSaleRespond(t) ==
  /\ AtStage("createSale") /\ "createSale" \in Range(hran)
  /\ Done(t) /\ FirstFree(t)
  /\ LET out == CreateSaleOutcome(result[t]) IN
       SendResponse(IF out.ok
                      THEN Response(201, "", "Sale created successfully", "",
                                    out.saleId)
                      ELSE ErrorResponse(out),
                    req[t], hran)
  /\ UNCHANGED <<dbVars, txVars, adminVars, authVars, regVars, imgVars>>

\* getSales (sales controller 34-55): a read of the sales
GetSales ==
  /\ AtStage("getSales")
  /\ SendResponse(Response(200, "", "", "", NULL), NoReq,
                  Append(hran, "getSales"))
  /\ UNCHANGED <<dbVars, txVars, adminVars, authVars, regVars, imgVars>>

\* getSaleById (sales controller 60-74; the service throws NOT_FOUND)
GetSaleById ==
  /\ AtStage("getSaleById")
  /\ SendResponse(IF \E s \in sales : s.id = hreq.id
                    THEN Response(200, "", "", "", hreq.id)
                    ELSE ErrorResponse(NotFound("Sale not found")),
                  NoReq, Append(hran, "getSaleById"))
  /\ UNCHANGED <<dbVars, txVars, adminVars, authVars, regVars, imgVars>>

\* the sales routes, one request at a time, with process_sale underneath
NextApi ==
  \/ ReceiveRequest
  \/ Authenticate
  \/ ValidateBody
  \/ ValidateQuery
  \/ \E t \in Txns : CreateSaleController(t)
  \/ \E t \in Txns : SelectCustomer(t)
  \/ \E t \in Txns : UpsertCustomer(t)
  \/ \E t \in Txns : ValidateItem(t)
  \/ \E t \in Txns : CreateSaleRow(t)
  \/ \E t \in Txns : InsertItem(t)
  \/ \E t \in Txns : UpdateStock(t)
  \/ \E t \in Txns : FinalizeSale(t)
  \/ \E t \in Txns : StoreError(t)
  \/ \E t \in Txns : CreateSaleRespond(t)
  \/ GetSales
  \/ GetSaleById

SpecApi == Init /\ [][NextApi]_vars

\* ------------------------------------------------ claims on the sales routes
\* the quantity is not a positive integer, or is above 100 (a value that is
\* no number is read as Number() reads it)
BadQuantity(j) ==
  LET n == CoerceNumber(j) IN
    \/ n.nan
    \/ n.tenths % 10 # 0
    \/ n.tenths < 10
    \/ n.tenths > MaxQuantityPerItem * 10

BadCustomer(c) ==
  \/ StringLength(c.firstName) \notin MinNameLength..MaxNameLength
  \/ StringLength(c.lastName) \notin MinNameLength..MaxNameLength
  \/ ~IsEmail(c.email)

\* an empty item list, more than 50 items, a bad quantity, a productId that
\* is no UUID, or an invalid customer field
BadSaleRequest(body) ==
  \/ body.items = <<>>
  \/ Len(body.items) > MaxItemsPerSale
  \/ \E i \in DOMAIN body.items :
       BadQuantity(body.items[i].quantity) \/ ~IsUuid(body.items[i].productId)
  \/ BadCustomer(body.customer)

\* the request in flight moves on (to its next middleware, or to its end)
RequestMoves == hchain' # hchain \/ hran' # hran

SameRequestTwice ==
  /\ Len(hlog) = 2
  /\ hlog[1].route = PostSales /\ hlog[2].route = PostSales
  /\ hlog[1].input # NoReq
  /\ hlog[1].input = hlog[2].input
  /\ hlog[1].res.statusCode = 201

\* the stock the catalog began with covers the request twice
StockSufficesTwice(input) ==
  \A p \in ProductsOf(input) :
    /\ p \in CatalogIds
    /\ 2 * RequestedQty(input, p) <= InitProducts[p].stock

\* the store failed under the request
StoreFailed(res) == res.code = "INTERNAL_ERROR" \/ res.detail = "internal_error"

\* C15: sale requests are not deduplicated: the same request submitted twice
\* in sequence while stock suffices for both creates two sales with distinct
\* ids, doubles the sale_items and decrements the stock twice
C15_SameRequestTwiceSellsTwice ==
  (/\ SameRequestTwice
   /\ StockSufficesTwice(hlog[1].input)
   /\ ~StoreFailed(hlog[2].res))
    => LET input == hlog[1].input
           ids   == {hlog[1].res.saleId, hlog[2].res.saleId}
       IN /\ hlog[2].res.statusCode = 201
          /\ Cardinality(ids) = 2
          /\ {s.id : s \in sales} = ids
          /\ \A id \in ids :
               Cardinality(ItemsOf(sale_items, id)) = Len(input.items)
          /\ \A p \in ProductsOf(input) :
               products[p].stock
                 = InitProducts[p].stock - 2 * RequestedQty(input, p)

\* C15 witness: one unit of pB sold twice to the same customer
C15_Witness ==
  /\ SameRequestTwice
  /\ hlog[2].res.statusCode = 201
  /\ hlog[1].res.saleId # hlog[2].res.saleId
  /\ Cardinality(customers) = 1
  /\ Cardinality(sale_items) = 2
  /\ products["pB"].stock = InitProducts["pB"].stock - 2

\* the header is 'Bearer <token>' and the token verifies as an access token
BearerVerifies(authorization) ==
  /\ Len(authorization) = 2
  /\ authorization[1] = "Bearer "
  /\ authorization[2].key = "JWT_SECRET"
  /\ now < authorization[2].exp

\* C20: POST /api/sales reaches createSale without any credential; GET
\* /api/sales and GET /api/sales/:id reach their handler only when the
\* Authorization header is 'Bearer <token>' with a token that verifies;
\* otherwise authenticate answers UNAUTHORIZED and the handler is not invoked
C20_OnlyGetRoutesAuthenticate ==
  [][/\ (hreq' # NoHttp /\ hreq'.route = PostSales)
          => "authenticate" \notin Range(hchain') \cup Range(hran')
     /\ (hreq.route = PostSales /\ ~BadSaleRequest(hreq.body) /\ RequestMoves)
          => \/ hchain' = <<"createSale">>
             \/ "createSale" \in Range(hlog'[Len(hlog')].ran)
     /\ (hreq.route \in {GetSalesAll, GetSalesOne} /\ RequestMoves)
          => IF BearerVerifies(hreq.authorization)
               THEN "authenticate" \in Range(hran')
                      \/ "authenticate" \in Range(hlog'[Len(hlog')].ran)
               ELSE /\ hres'.statusCode = 401
                    /\ hres'.code = "UNAUTHORIZED"
                    /\ hchain' = <<>>
                    /\ hlog'[Len(hlog')].ran = <<"authenticate">>]_vars

\* C20 witness: a GET without a verifying token was answered UNAUTHORIZED,
\* then a POST with no Authorization header had its sale committed
C20_Witness ==
  /\ Len(hlog) = 1
  /\ hlog[1].route = GetSalesAll
  /\ hlog[1].res.code = "UNAUTHORIZED"
  /\ hreq.route = PostSales /\ hreq.authorization = <<>>
  /\ hran = <<"validate(createSaleSchema)", "createSale">>
  /\ \E t \in Txns : Committed(t)

\* ------------------------------------------------------- the auth service
\* the first 72 bytes of a JWT: its header and the start of its payload,
\* {"id":"...; bcrypt.hash and bcrypt.compare read no further
First72(token) == <<"eyJhbGciOiJIUzI1NiIsInR5cCI6IkpXVCJ9", token.sub>>

\* bcrypt.compare(plain, hash)
BcryptCompare(bytes, hash) == hash = BcryptHash(bytes)

\* the clock advances
Tick ==
  /\ now < MaxClock
  /\ now' = now + 1
  /\ UNCHANGED <<dbVars, txVars, adminVars, httpVars, regVars, imgVars, users, issued, lpc,
                 lreq, authres>>

\* login (auth service 160-198): find the user, compare the password, make
\* the two tokens
LoginFind(email, password) ==
  /\ lpc = "idle"
  /\ Cardinality(issued) < MaxLogins
  /\ LET found == {u \in UserIds : users[u].email = email} IN
       IF found = {}
            \/ \A u \in found :
                 ~BcryptCompare(<<password>>, users[u].password_hash)
         THEN /\ authres' = AuthResult("login", "", "UNAUTHORIZED", NotAJwt,
                                       NotAJwt)
              /\ UNCHANGED <<lpc, lreq>>
         ELSE LET u == CHOOSE v \in found : TRUE IN
              /\ lreq' = [user |-> u,
                          accessToken |->
                            Jwt("JWT_SECRET", u, now, now + AccessTtl),
                          refreshToken |->
                            Jwt("JWT_REFRESH_SECRET", u, now, now + RefreshTtl)]
              /\ lpc' = "save"
              /\ UNCHANGED authres
  /\ UNCHANGED <<dbVars, txVars, adminVars, httpVars, regVars, imgVars, now, users, issued>>

\* login (auth service 200-211): save the hash of the refresh token, whose
\* outcome the code does not look at, and return the tokens
LoginSave ==
  /\ lpc = "save"
  /\ \E saved \in BOOLEAN :
       /\ users' = IF saved
                     THEN [users EXCEPT ![lreq.user].refresh_token_hash =
                             BcryptHash(First72(lreq.refreshToken))]
                     ELSE users
       /\ issued' = issued \cup {[token |-> lreq.refreshToken, saved |-> saved]}
  /\ authres' = AuthResult("login", lreq.user, "OK", lreq.accessToken,
                           lreq.refreshToken)
  /\ lpc' = "idle"
  /\ lreq' = NoLogin
  /\ UNCHANGED <<dbVars, txVars, adminVars, httpVars, regVars, imgVars, now>>

\* the error refreshToken throws for the token, or none (auth service
\* 220-247, 257-262)
RefreshOutcome(token) ==
  IF ~JwtVerify(token, "JWT_REFRESH_SECRET")
    THEN Unauthorized("Invalid refresh token")
  ELSE IF token.sub \notin DOMAIN users
    THEN Unauthorized("Invalid refresh token")
  ELSE IF users[token.sub].refresh_token_hash = NoHash
    THEN Unauthorized("Invalid refresh token")
  ELSE IF ~BcryptCompare(First72(token), users[token.sub].refresh_token_hash)
    THEN Unauthorized("Invalid refresh token")
  ELSE CallNext

\* refreshToken (auth service 217-263)
RefreshToken(token) ==
  /\ authres' =
       IF RefreshOutcome(token).ok
         THEN AuthResult("refresh", token.sub, "OK",
                         Jwt("JWT_SECRET", token.sub, now, now + AccessTtl),
                         token)
         ELSE AuthResult("refresh", token.sub, RefreshOutcome(token).code,
                         NotAJwt, token)
  /\ UNCHANGED <<dbVars, txVars, adminVars, httpVars, regVars, imgVars, now, users, issued, lpc,
                 lreq>>

\* mutant: logout leaves the stored hash as it is
Logout_HashKept(u) ==
  /\ authres' = AuthResult("logout", u, "OK", NotAJwt, NotAJwt)
  /\ UNCHANGED <<dbVars, txVars, adminVars, httpVars, regVars, imgVars, now, users, issued, lpc,
                 lreq>>

\* logout (auth service 268-278): refresh_token_hash becomes null, or the
\* store fails and the function throws
Logout(u) ==
  /\ \/ /\ users' = [users EXCEPT ![u].refresh_token_hash = NoHash]
        /\ authres' = AuthResult("logout", u, "OK", NotAJwt, NotAJwt)
     \/ /\ authres' = AuthResult("logout", u, "INTERNAL_ERROR", NotAJwt,
                                 NotAJwt)
        /\ UNCHANGED users
  /\ UNCHANGED <<dbVars, txVars, adminVars, httpVars, regVars, imgVars, now, issued, lpc, lreq>>

\* every token the two secrets can sign within the clock's run, and a string
\* that is no token
Jwts ==
  {Jwt(key, u, iat, iat + ttl) :
     key \in {"JWT_SECRET", "JWT_REFRESH_SECRET"}, u \in UserIds,
     iat \in 0..MaxClock, ttl \in {AccessTtl, RefreshTtl}}
    \cup {NotAJwt}

\* the tokens a caller may present to refreshToken: the refresh tokens the
\* logins handed out, a fresh access token, and a string that is no token
RefreshInputs ==
  {i.token : i \in issued}
    \cup {Jwt("JWT_SECRET", u, now, now + AccessTtl) : u \in UserIds}
    \cup {NotAJwt}

NextAuth ==
  \/ Tick
  \/ \E u \in UserIds : \E p \in {UserPassword[u], "wrong"} :
       LoginFind(UserEmail[u], p)
  \/ \E p \in {"wrong"} : LoginFind("nobody@shop.com", p)
  \/ LoginSave
  \/ \E token \in Jwts : token \in RefreshInputs /\ RefreshToken(token)
  \/ \E u \in UserIds : Logout(u)

SpecAuth == Init /\ [][NextAuth]_vars

\* ------------------------------------------------------------ claim C19
LoggedOut(u) == users[u].refresh_token_hash = NoHash

\* a call of refreshToken with a token of user u returns in this step
RefreshReturns(u) ==
  /\ authres' # authres
  /\ authres'.op = "refresh"
  /\ authres'.refreshToken.sub = u

\* C19: after logout(user) completes, refreshToken called with any refresh
\* token issued to that user by an earlier login fails with UNAUTHORIZED and
\* issues no access token, until that user logs in again
C19_NoRefreshAfterLogout ==
  [][\A u \in UserIds :
       /\ (authres' # authres /\ authres' = AuthResult("logout", u, "OK",
                                                       NotAJwt, NotAJwt))
            => LoggedOut(u)'
       /\ (LoggedOut(u) /\ ~LoggedOut(u)')
            => (authres'.op = "login" /\ authres'.user = u)
       /\ (LoggedOut(u) /\ RefreshReturns(u))
            => /\ authres'.code = "UNAUTHORIZED"
               /\ authres'.accessToken = NotAJwt]_vars

\* C19 witness: a refresh token that a completed login saved, not expired, is
\* refused after the user's logout
C19_Witness ==
  \E i \in issued :
    /\ i.saved
    /\ now < i.token.exp
    /\ LoggedOut(i.token.sub)
    /\ authres = AuthResult("refresh", i.token.sub, "UNAUTHORIZED", NotAJwt,
                            i.token)

\* ------------------------------------------------------------ claim C21
\* the lines of the request that offend against the committed products
OffendingLines(items) == {j \in DOMAIN items : LineOffends(items[j])}

\* no catalog request has begun and no sale has committed a decrement: the
\* products table is as it was when every running request began
ProductsUntouched == adminCount = 0 /\ products = InitProducts

\* t has written no sale, no sale_item and no stock
NoSaleWritten(t) ==
  /\ pendSale[t] = NoSale
  /\ pendItems[t] = <<>>
  /\ pendStock[t] = NoStockWrites
  /\ v_sale_id[t] = NULL

\* C21: process_sale checks the lines in input order before it creates the
\* sale or touches stock and reports the first failing line: for one line the
\* order is exists, active, stock; for a list the earliest offending line
\* decides the reason
C21_FirstFailingLineReported ==
  [][\A t \in Txns :
       /\ pc[t] = "validate" => NoSaleWritten(t)
       /\ (pc[t] # "validate" /\ pc'[t] = "validate") => idx'[t] = 1
       /\ ValidatesLine(t) =>
            LET k == idx[t]
                item == req[t].items[idx[t]]
            IN
              /\ \A j \in 1..(k - 1) : req[t].items[j].product_id \in CatalogIds
              /\ IF LineOffends(item)
                   THEN /\ pc'[t] = "done"
                        /\ RejectionNames(result'[t], item)
                        /\ ProductsUntouched => k = Min(OffendingLines(req[t].items))
                        /\ <<sales, sale_items, products>>'
                             = <<sales, sale_items, products>>
                   ELSE /\ IF k < Len(req[t].items)
                             THEN pc'[t] = "validate" /\ idx'[t] = k + 1
                             ELSE pc'[t] = "create_sale"
                        /\ ProductsUntouched => OffendingLines(req[t].items) \cap 1..k = {}]_vars

\* C21 witness: line 1 asks 2 of an inactive product with stock 1, line 2 names
\* a product with no row; the request is rejected for the inactive product
C21_Witness ==
  \E t \in Txns :
    /\ Done(t)
    /\ req[t].items = <<[product_id |-> "pA", quantity |-> 2],
                        [product_id |-> "pX", quantity |-> 1]>>
    /\ ~products["pA"].is_active /\ products["pA"].stock = 1
    /\ result[t] = InactiveResult("Latte")

\* ------------------------------------------------------------ claim C22
\* the request names some product in more than one line
RepeatsProduct(r) == Cardinality(ProductsOf(r)) < Len(r.items)

\* some product is asked for, over all lines, in more than its stock
SumAboveStock(r) ==
  \E p \in ProductsOf(r) \cap CatalogIds :
    RequestedQty(r, p) > products[p].stock

\* the invocation of t ends in this step
Finishes(t) == InFlight(t) /\ pc'[t] = "done"

\* the store failed, or the request lost to a concurrent one
Disturbed(res) ==
  \/ res.error
  \/ res.detail \in {"internal_error", "deadlock_detected", "unique_violation"}

\* the step commits one sale_item for every line of t's request
OneItemPerLine(t) ==
  LET rows == sale_items' \ sale_items IN
    /\ Cardinality(rows) = Len(req[t].items)
    /\ \A i \in DOMAIN req[t].items :
         \E row \in rows : /\ row.line = i
                           /\ row.product_id = req[t].items[i].product_id
                           /\ row.quantity = req[t].items[i].quantity

\* C22: a request that names one product in several lines, every line within
\* the current stock, never commits when the lines' sum is above the stock and
\* then leaves stock, customers, sales and sale_items as they were; when the
\* sum is within stock it commits one sale_item per line and takes the sum
\* from the stock
C22_RepeatedProductSummed ==
  [][\A t \in Txns :
       (/\ Finishes(t)
        /\ RepeatsProduct(req[t])
        /\ OffendingLines(req[t].items) = {})
         => IF SumAboveStock(req[t])
              THEN /\ ~result'[t].success
                   /\ ~CreateSaleOutcome(result'[t]).ok
                   /\ dbVars' = dbVars
                   /\ NothingPending(t)'
              ELSE /\ ~Disturbed(result'[t]) => result'[t].success
                   /\ result'[t].success =>
                        /\ OneItemPerLine(t)
                        /\ \A p \in CatalogIds :
                             products'[p].stock =
                               products[p].stock - RequestedQty(req[t], p)]_vars

\* C22 witness: of two requests on the product with stock 2, the one with
\* lines of 2 and 1 was rolled back at its second decrement and the one with
\* lines of 1 and 1 committed two sale_items and took both units
C22_Witness ==
  \E t \in Txns, u \in Txns :
    /\ Done(t)
    /\ req[t].items = <<[product_id |-> "pB", quantity |-> 2],
                        [product_id |-> "pB", quantity |-> 1]>>
    /\ result[t] = TransactionFailedResult("check_violation")
    /\ Committed(u)
    /\ req[u].items = <<[product_id |-> "pB", quantity |-> 1],
                        [product_id |-> "pB", quantity |-> 1]>>
    /\ Cardinality(sale_items) = 2
    /\ products["pB"].stock = 0

\* ------------------------------------------------------------ claim C23
\* t found no customer for its email, and by the time its INSERT ran another
\* request had committed a row with that email: the INSERT raises
LosesInsertRace(t) ==
  /\ pc[t] = "upsert_customer"
  /\ v_customer_id[t] = NULL
  /\ Finishes(t)
  /\ result'[t].detail = "unique_violation"

\* C23: of two concurrent first-time purchases with the same new email at most
\* one customer row for the email is ever committed; the request that loses
\* the insert race fails as a whole (no sale, sale_item or stock decrement of
\* it survives) and the winner's rows are not touched
C23_InsertRaceHasOneWinner ==
  [][/\ \A c1 \in customers', c2 \in customers' :
          c1.email = c2.email => c1.id = c2.id
     /\ \A t \in Txns :
          LosesInsertRace(t) =>
            /\ \E c \in customers : c.email = req[t].email
            /\ dbVars' = dbVars
            /\ NothingPending(t)'
            /\ ~result'[t].success
            /\ ~CreateSaleOutcome(result'[t]).ok
     /\ \A t \in Txns, u \in Txns :
          (Committed(t)' /\ Committed(u)' /\ req[t].email = req[u].email)
            => result'[t].customer_id = result'[u].customer_id]_vars

\* C23 witness: two requests with the same new email both found no customer;
\* one committed its customer and sale, the other's INSERT raised, and the
\* tables hold the winner's rows only
C23_Witness ==
  \E t \in Txns, u \in Txns :
    /\ Done(t) /\ result[t] = TransactionFailedResult("unique_violation")
    /\ Committed(u) /\ req[u].email = req[t].email
    /\ Cardinality(customers) = 1
    /\ Cardinality(sales) = 1
    /\ \A s \in sales : s.id = result[u].sale_id
    /\ \A i \in sale_items : i.sale_id = result[u].sale_id
    /\ sale_items # {}

\* ------------------------------------------------------------ claim C24
\* C24: a committed sale has no line for a product that was inactive when the
\* sale wrote the line and took its stock (the row is locked from that UPDATE
\* to the commit, so inactive at the commit means inactive at the UPDATE);
\* once deleteProduct has committed, the product's stock never goes down.
\* (Stated as claimed; the code looks at is_active in the validation loop only.)
C24_NoSaleOfDeletedProduct ==
  [][/\ \A t \in Txns :
          CommitsSale(t) =>
            \A p \in ProductsOf(req[t]) : products[p].is_active
     /\ \A p \in CatalogIds :
          ~products[p].is_active => products'[p].stock >= products[p].stock]_vars

\* ------------------------------------------------------------ claim C25
\* updateProduct or deleteProduct is called in this step
CatalogCall == adminCount' = adminCount + 1

\* C25: soft deletion is not undone through the API: an inactive product stays
\* inactive under every updateProduct, deleteProduct and createSale; a call of
\* updateProduct or deleteProduct on an inactive or unknown product fails with
\* NOT_FOUND and changes no row
C25_SoftDeleteIrreversible ==
  [][/\ \A p \in CatalogIds : ~products[p].is_active => ~products'[p].is_active
     /\ CatalogCall =>
          IF aresult' = "NOT_FOUND"
            THEN apc' = "idle" /\ dbVars' = dbVars
            ELSE /\ apc' \in {"update_write", "delete_write"}
                 /\ areq'.id \in CatalogIds
                 /\ products[areq'.id].is_active
     /\ (apc # "idle" /\ apc' = "idle") =>
          /\ aresult' = "ok"
          /\ \A p \in CatalogIds \ {areq.id} : products'[p] = products[p]]_vars

\* C25 witness: after deleteProduct succeeded, a second catalog call was
\* answered NOT_FOUND, and the deleted product is inactive and as it was
C25_Witness ==
  /\ adminCount = 2
  /\ aresult = "NOT_FOUND"
  /\ \E p \in CatalogIds :
       products[p] = [InitProducts[p] EXCEPT !.is_active = FALSE]

\* ------------------------------------------------------------ claim C26
\* the refresh token of user u's most recent successful login
RecentTokens(u) ==
  LET mine == {i.token : i \in {j \in issued : j.token.sub = u}} IN
    {tok \in mine : \A other \in mine : other.iat <= tok.iat}

\* a login that ends with 401 in this step
LoginFails ==
  /\ authres' # authres
  /\ authres'.op = "login"
  /\ authres'.code = "UNAUTHORIZED"

\* C26: at most one refresh token per user is accepted: refreshToken returns
\* an access token only for the token of the user's most recent successful
\* login, and only while no logout has happened since; a token of an earlier
\* login is refused with UNAUTHORIZED; a failed login leaves the stored hash
\* as it was.  (Stated as claimed; the stored hash covers the first 72 bytes
\* of the token, which are the same for every refresh token of one user.)
C26_OnlyLatestRefreshTokenAccepted ==
  [][/\ \A u \in UserIds :
          RefreshReturns(u) =>
            IF authres'.refreshToken \in RecentTokens(u) /\ ~LoggedOut(u)
              THEN TRUE
              ELSE /\ authres'.code = "UNAUTHORIZED"
                   /\ authres'.accessToken = NotAJwt
     /\ LoginFails => users' = users]_vars

\* ------------------------------------------------------------- register
\* mutant: no UNIQUE constraint on users.email
UserEmailTaken_NoConstraint(e) == FALSE

\* users.email is UNIQUE (schema.sql 13)
UserEmailTaken(e) == \E u \in DOMAIN users : users[u].email = e

\* uuid_generate_v4() (schema.sql 12): an id no user row carries
FreeUserIds == {i \in DOMAIN NewUserIds : NewUserIds[i] \notin DOMAIN users}

RegisterEmails == {UserEmail[u] : u \in UserIds} \cup Range(NewUserEmails)

\* register (auth service 118-127): select('id').eq('email', email).single()
\* gives the row, or no data when there is no row or the store fails; only a
\* row makes the function throw AppError.conflict
RegisterCheck(c, email) ==
  /\ reg[c].pc = "idle"
  /\ regCount < MaxRegisters
  /\ regCount' = regCount + 1
  /\ LET found == {u \in DOMAIN users : users[u].email = email} IN
       \E lookup \in {"failed"} \cup
                     (IF Cardinality(found) = 1 THEN {"row"}
                      ELSE IF found = {} THEN {"no rows"} ELSE {}) :
         reg' = [reg EXCEPT ![c] =
                   IF lookup = "row"
                     THEN Register("idle", email, lookup, "CONFLICT")
                     ELSE Register("insert", email, lookup, "")]
  /\ UNCHANGED <<dbVars, txVars, adminVars, authVars, httpVars, imgVars>>

\* register (auth service 129-154): hash the password, insert the row; an
\* insert error (unique violation, store failure) is thrown as INTERNAL_ERROR
RegisterInsert(c) ==
  /\ reg[c].pc = "insert"
  /\ \/ /\ ~UserEmailTaken(reg[c].email)
        /\ FreeUserIds # {}
        /\ LET id == NewUserIds[Min(FreeUserIds)] IN
             users' = [u \in DOMAIN users \cup {id} |->
                         IF u = id
                           THEN [email |-> reg[c].email,
                                 password_hash |-> BcryptHash(<<"pw-new">>),
                                 refresh_token_hash |-> NoHash]
                           ELSE users[u]]
        /\ reg' = [reg EXCEPT ![c].pc = "idle", ![c].code = "OK"]
     \/ /\ reg' = [reg EXCEPT ![c].pc = "idle", ![c].code = "INTERNAL_ERROR"]
        /\ UNCHANGED users
  /\ UNCHANGED <<dbVars, txVars, adminVars, httpVars, imgVars, regCount, now,
                 issued, lpc, lreq, authres>>

NextRegister ==
  \/ \E c \in Callers, email \in RegisterEmails : RegisterCheck(c, email)
  \/ \E c \in Callers : RegisterInsert(c)

SpecRegister == Init /\ [][NextRegister]_vars

\* ------------------------------------------------------------ claim C27
HasUser(e) == \E u \in DOMAIN users : users[u].email = e

\* the register call of c returns or throws in this step
RegisterReturns(c) == reg'[c] # reg[c] /\ reg'[c].pc = "idle"

\* C27: never two user rows with one email; register with an email that has a
\* user is rejected with CONFLICT and leaves users unchanged; of two concurrent
\* register calls with the same new email at most one creates a row and the
\* other is rejected
C27_OneUserPerEmail ==
  [][/\ \A u \in DOMAIN users', v \in DOMAIN users' :
          users'[u].email = users'[v].email => u = v
     /\ \A u \in DOMAIN users : u \in DOMAIN users' /\ users'[u] = users[u]
     /\ \A c \in Callers :
          RegisterReturns(c) =>
            /\ reg'[c].code \in {"OK", "CONFLICT", "INTERNAL_ERROR"}
            /\ reg'[c].code = "CONFLICT" <=> reg'[c].lookup = "row"
            /\ (HasUser(reg'[c].email) /\ reg[c].pc = "idle"
                  /\ reg'[c].lookup # "failed") => reg'[c].code = "CONFLICT"
            /\ HasUser(reg'[c].email) => reg'[c].code # "OK" /\ users' = users
            /\ reg'[c].code # "OK" => users' = users
            /\ reg'[c].code = "OK" =>
                 Cardinality(DOMAIN users') = Cardinality(DOMAIN users) + 1
     /\ \A c \in Callers, d \in Callers :
          (c # d /\ reg'[c].email = reg'[d].email /\ reg'[c].code = "OK")
            => reg'[d].code # "OK"]_vars

\* C27 witness: two register calls found no row for the same new email; one
\* created the user, the other's insert was refused
C27_Witness ==
  \E c \in Callers, d \in Callers :
    /\ reg[c] = Register("idle", "cat@shop.com", "no rows", "OK")
    /\ reg[d] = Register("idle", "cat@shop.com", "no rows", "INTERNAL_ERROR")
    /\ Cardinality({u \in DOMAIN users : users[u].email = "cat@shop.com"}) = 1
    /\ Cardinality(DOMAIN users) = Cardinality(UserIds) + 1

\* ------------------------------------------ createProduct / updateProduct
\* ------------------------------------------ with an image file
\* the objects some row, some running call or the bucket knows of
KnownFiles ==
  storage
    \cup {PathOfUrl(image_url[p]) :
            p \in {q \in DOMAIN image_url : image_url[q] # NoImage}}
    \cup {PathOfUrl(img[c].imageUrl) :
            c \in {d \in Clients : img[d].imageUrl # NoImage}}
    \cup {PathOfUrl(img[c].existing) :
            c \in {d \in Clients : img[d].existing # NoImage}}

\* uuidv4() (products.service 259): a name no object has
FreshFile ==
  FileName(Min({n \in 1..(Cardinality(KnownFiles) + 1) :
                  FileName(n) \notin KnownFiles}))

\* deleteImage (products.service 286-306): the object is removed, or the
\* error is logged and not thrown and the object stays
StorageAfterDelete(url) == {storage \ {PathOfUrl(url)}, storage}

FreeProductIds ==
  {i \in DOMAIN NewProductIds : NewProductIds[i] \notin DOMAIN products}

OtherVars == <<customers, sales, sale_items, txVars, adminVars, authVars,
               httpVars, regVars>>

\* createProduct is called with an image file (products.service 136-145)
CreateProductBegin(c) ==
  /\ img[c].pc = "idle"
  /\ imgCount < MaxImageOps
  /\ imgCount' = imgCount + 1
  /\ img' = [img EXCEPT ![c] =
               ImageCall("create", "upload", "", NoImage, NoImage, "")]
  /\ UNCHANGED <<OtherVars, products, storage, image_url>>

\* updateProduct is called with an image file: getProductById first
\* (products.service 179-187); the body carries no other field
UpdateProductBegin(c, id) ==
  /\ img[c].pc = "idle"
  /\ imgCount < MaxImageOps
  /\ imgCount' = imgCount + 1
  /\ img' = [img EXCEPT ![c] =
               IF ProductVisible(id)
                 THEN ImageCall("update", "upload", id, image_url[id],
                                NoImage, "")
                 ELSE ImageCall("update", "idle", id, NoImage, NoImage,
                                "NOT_FOUND")]
  /\ UNCHANGED <<OtherVars, products, storage, image_url>>

\* where the function goes after uploadImage returned (products.service
\* 147, 194-198)
AfterUpload(call) ==
  IF call.op = "create" THEN "insert"
  ELSE IF call.existing # NoImage THEN "delete_old"
  ELSE "update_row"

\* uploadImage (products.service 256-281): the object is stored and its public
\* URL returned, or the upload fails and the function throws
UploadImage(c) ==
  /\ img[c].pc = "upload"
  /\ \/ /\ storage' = storage \cup {FreshFile}
        /\ img' = [img EXCEPT ![c].imageUrl = PublicUrl(FreshFile),
                              ![c].pc = AfterUpload(img[c])]
     \/ /\ img' = [img EXCEPT ![c].pc = "idle", ![c].code = "INTERNAL_ERROR"]
        /\ UNCHANGED storage
  /\ UNCHANGED <<OtherVars, products, image_url, imgCount>>

\* updateProduct (products.service 194-197): delete the old image
DeleteOldImage(c) ==
  /\ img[c].pc = "delete_old"
  /\ storage' \in StorageAfterDelete(img[c].existing)
  /\ img' = [img EXCEPT ![c].pc = "update_row"]
  /\ UNCHANGED <<OtherVars, products, image_url, imgCount>>

\* createProduct (products.service 147-173): insert the row with image_url
InsertProduct(c) ==
  /\ img[c].pc = "insert"
  /\ \/ /\ FreeProductIds # {}
        /\ LET id == NewProductIds[Min(FreeProductIds)] IN
             /\ products' = [p \in DOMAIN products \cup {id} |->
                               IF p = id
                                 THEN [price |-> 500, stock |-> 1,
                                       is_active |-> TRUE]
                                 ELSE products[p]]
             /\ image_url' = [p \in DOMAIN image_url \cup {id} |->
                                IF p = id THEN img[c].imageUrl
                                          ELSE image_url[p]]
             /\ img' = [img EXCEPT ![c] =
                          ImageCall("create", "idle", id, NoImage, NoImage,
                                    "OK")]
     \/ /\ img' = [img EXCEPT ![c].pc = "cleanup"]
        /\ UNCHANGED <<products, image_url>>
  /\ UNCHANGED <<OtherVars, storage, imgCount>>

\* updateProduct (products.service 201-231): update the row's image_url
UpdateProductRow(c) ==
  /\ img[c].pc = "update_row"
  /\ \/ /\ image_url' = [image_url EXCEPT ![img[c].id] = img[c].imageUrl]
        /\ img' = [img EXCEPT ![c] =
                     ImageCall("update", "idle", img[c].id, NoImage, NoImage,
                               "OK")]
     \/ /\ img' = [img EXCEPT ![c].pc = "cleanup"]
        /\ UNCHANGED image_url
  /\ UNCHANGED <<OtherVars, products, storage, imgCount>>

\* the write failed: delete the uploaded image and throw (products.service
\* 160-167, 218-225)
DeleteUploadedImage(c) ==
  /\ img[c].pc = "cleanup"
  /\ storage' \in StorageAfterDelete(img[c].imageUrl)
  /\ img' = [img EXCEPT ![c] =
               ImageCall(img[c].op, "idle", img[c].id, NoImage, NoImage,
                         "INTERNAL_ERROR")]
  /\ UNCHANGED <<OtherVars, products, image_url, imgCount>>

NextImages ==
  \/ \E c \in Clients : CreateProductBegin(c)
  \/ \E c \in Clients, id \in ProductIds : UpdateProductBegin(c, id)
  \/ \E c \in Clients : UploadImage(c)
  \/ \E c \in Clients : DeleteOldImage(c)
  \/ \E c \in Clients : InsertProduct(c)
  \/ \E c \in Clients : UpdateProductRow(c)
  \/ \E c \in Clients : DeleteUploadedImage(c)

SpecImages == Init /\ [][NextImages]_vars

\* ------------------------------------------------------------ claim C28
\* the image a row points at is in the bucket
ImageStored(p) ==
  image_url[p] = NoImage \/ PathOfUrl(image_url[p]) \in storage

\* some row points at the object
Referenced(file) ==
  \E p \in DOMAIN image_url :
    image_url[p] # NoImage /\ PathOfUrl(image_url[p]) = file

\* C28: after a createProduct or updateProduct call with an image, whether it
\* succeeded or failed, every row's image_url is null or the URL of an object
\* in the bucket, and the bucket holds no object that no row points at.
\* (Stated as claimed; updateProduct deletes the old image before it updates
\* the row, and deleteImage does not report a failure.)
C28_ImagesMatchRows ==
  (\A c \in Clients : img[c].pc = "idle")
    => /\ \A p \in DOMAIN image_url : ImageStored(p)
       /\ \A file \in storage : Referenced(file)
====
